---- MODULE Spec2Model ----
(***************************************************************************)
(* Caching, retry and throttling core of the storefront bot:               *)
(*   utils/cache.py            EnhancedCache                               *)
(*   utils/retryable.py        RetryableOperation                          *)
(*   apis/google_api_manager.py GoogleAPIsManager                          *)
(*                                                                         *)
(* Time is an integer number of milliseconds (time.time() returns float    *)
(* seconds; every duration of the source is written here in ms).           *)
(* Python's None is the empty tuple <<>>; a value that may be None is       *)
(* either <<>> or a one-element tuple <<v>>.                                *)
(***************************************************************************)
EXTENDS Integers, Sequences, FiniteSets, TLC

VARIABLES
    ec,          \* one EnhancedCache object (SpecCache)
    now,         \* time.time(), in ms
    nticks,      \* number of clock advances so far (bounds the clock)
    ret,         \* what the last operation on ec did and returned
    useOrder,    \* history: keys of ec ordered by their last set / hit-get
    setInfo,     \* history: per key, <<[t0, T]>> of its last set while the
                 \* entry was neither set again, cleared nor evicted, else <<>>
    scen,        \* history: progress along "set A, set B, get A, set C"
    univ,        \* the keys and values the callers of ec use
    rt,          \* one call of RetryableOperation.run (SpecRetry)
    gw,          \* the GoogleAPIsManager object (SpecGw, SpecGwConc)
    remote,      \* the remote spreadsheet: its order rows
    sess,        \* per session: the gateway call it is in, or its last one
    hist,        \* history of the gateway calls
    obs,         \* what the last step of a gateway call found and did
    im,          \* the InventoryManager object in front of the gateway
    env          \* the callers of the gateway and what the backend may do

cacheVars == <<ec, now, nticks, ret, useOrder, setInfo, scen, univ>>

retryVars == <<rt>>

gwVars == <<gw, remote, sess, hist, obs, im, env>>

vars == <<ec, now, nticks, ret, useOrder, setInfo, scen, univ, rt,
          gw, remote, sess, hist, obs, im, env>>

None == <<>>

Some(x) == <<x>>

\* Python truthiness of an optional integer argument: None and 0 are falsy.
FalsyInt(x) == x = None \/ x[1] = 0

\* Python truthiness of an optional string argument: None and "" are falsy.
FalsyStr(x) == x = None \/ x[1] = ""

Max(a, b) == IF a >= b THEN a ELSE b

Min(a, b) == IF a <= b THEN a ELSE b

(***************************************************************************)
(* Bounds of the model.                                                    *)
(***************************************************************************)
MaxCap == 2

MaxTicks == 2

MaxGets == 2

MaxStatGets == 4

MaxRetries == 3

(***************************************************************************)
(* collections.deque(maxlen=n)                                             *)
(***************************************************************************)
\* deque.append: a full bounded deque discards its leftmost item.
DequeAppend(q, x, maxlen) ==
    IF maxlen = 0 THEN q
    ELSE IF Len(q) >= maxlen THEN Append(Tail(q), x)
    ELSE Append(q, x)

InSeq(q, x) == \E i \in 1..Len(q) : q[i] = x

IndexOf(q, x) == CHOOSE i \in 1..Len(q) : q[i] = x /\ \A j \in 1..(i-1) : q[j] # x

\* deque.remove: removes the first occurrence.
DequeRemove(q, x) ==
    LET i == IndexOf(q, x)
    IN  SubSeq(q, 1, i-1) \o SubSeq(q, i+1, Len(q))

(***************************************************************************)
(* EnhancedCache (utils/cache.py).  An object is a record                  *)
(*   [cache, access_order, hits, misses, max_items, default_ttl]           *)
(* and an entry is [data, timestamp, ttl].                                 *)
(***************************************************************************)
DEFAULT_TTL == 60000

EnhancedCache(max_items) ==
    [cache        |-> <<>>,
     access_order |-> <<>>,
     hits         |-> 0,
     misses       |-> 0,
     max_items    |-> max_items,
     default_ttl  |-> DEFAULT_TTL]

HasKey(c, key) == key \in DOMAIN c.cache

\* dict assignment  d[key] = e
DictPut(d, key, e) == [k \in (DOMAIN d) \cup {key} |-> IF k = key THEN e ELSE d[k]]

\* del d[key]
DictDel(d, key) == [k \in (DOMAIN d) \ {key} |-> d[k]]

update_access_order_noremove(c, key) ==
    [c EXCEPT !.access_order = DequeAppend(c.access_order, key, c.max_items)]

_update_access_order(c, key) ==
    LET q == IF InSeq(c.access_order, key)
             THEN DequeRemove(c.access_order, key)
             ELSE c.access_order
    IN  [c EXCEPT !.access_order = DequeAppend(q, key, c.max_items)]

_remove_entry(c, key) ==
    LET d == IF HasKey(c, key) THEN DictDel(c.cache, key) ELSE c.cache
        q == IF InSeq(c.access_order, key)
             THEN DequeRemove(c.access_order, key)
             ELSE c.access_order
    IN  [c EXCEPT !.cache = d, !.access_order = q]

evict_lru_none(c) == c

evict_lru_mru(c) ==
    IF c.access_order # <<>>
    THEN _remove_entry(c, c.access_order[Len(c.access_order)])
    ELSE c

_evict_lru(c) ==
    IF c.access_order # <<>>
    THEN _remove_entry(c, c.access_order[1])
    ELSE c

\* The expiry test of get: now - entry["timestamp"] > ttl.
Expired_ge(entry, t) == t - entry.timestamp >= entry.ttl

Expired(entry, t) == t - entry.timestamp > entry.ttl

get_sliding(c, key, default_ttl, t) ==
    IF ~HasKey(c, key)
    THEN [c |-> [c EXCEPT !.misses = @ + 1], hit |-> FALSE, data |-> None]
    ELSE LET entry == c.cache[key]
         IN  IF Expired(entry, t)
             THEN [c    |-> [_remove_entry(c, key) EXCEPT !.misses = @ + 1],
                   hit  |-> FALSE,
                   data |-> None]
             ELSE [c    |-> [_update_access_order(c, key) EXCEPT
                                !.hits = @ + 1,
                                !.cache[key].timestamp = t],
                   hit  |-> TRUE,
                   data |-> entry.data]

get_no_touch(c, key, default_ttl, t) ==
    IF ~HasKey(c, key)
    THEN [c |-> [c EXCEPT !.misses = @ + 1], hit |-> FALSE, data |-> None]
    ELSE LET entry == c.cache[key]
         IN  IF Expired(entry, t)
             THEN [c    |-> [_remove_entry(c, key) EXCEPT !.misses = @ + 1],
                   hit  |-> FALSE,
                   data |-> None]
             ELSE [c    |-> [c EXCEPT !.hits = @ + 1],
                   hit  |-> TRUE,
                   data |-> entry.data]

\* get(key, default_ttl) at time t: [c |-> the object after, hit, data].
\* Every entry is written by set, which always stores "ttl", so
\* entry.get("ttl", default_ttl or self.default_ttl) is the entry's own ttl.
get(c, key, default_ttl, t) ==
    IF ~HasKey(c, key)
    THEN [c |-> [c EXCEPT !.misses = @ + 1], hit |-> FALSE, data |-> None]
    ELSE LET entry == c.cache[key]
         IN  IF Expired(entry, t)
             THEN [c    |-> [_remove_entry(c, key) EXCEPT !.misses = @ + 1],
                   hit  |-> FALSE,
                   data |-> None]
             ELSE [c    |-> [_update_access_order(c, key) EXCEPT !.hits = @ + 1],
                   hit  |-> TRUE,
                   data |-> entry.data]

set_evict_when_full(c, key, value, ttl, t) ==
    LET c1 == IF Cardinality(DOMAIN c.cache) >= c.max_items
              THEN _evict_lru(c)
              ELSE c
        e  == [data      |-> value,
               timestamp |-> t,
               ttl       |-> IF FalsyInt(ttl) THEN c.default_ttl ELSE ttl[1]]
        c2 == [c1 EXCEPT !.cache = DictPut(c1.cache, key, e)]
    IN  _update_access_order(c2, key)

\* set(key, value, ttl) at time t: the object after (set returns value).
set(c, key, value, ttl, t) ==
    LET c1 == IF Cardinality(DOMAIN c.cache) >= c.max_items /\ ~HasKey(c, key)
              THEN _evict_lru(c)
              ELSE c
        e  == [data      |-> value,
               timestamp |-> t,
               ttl       |-> IF FalsyInt(ttl) THEN c.default_ttl ELSE ttl[1]]
        c2 == [c1 EXCEPT !.cache = DictPut(c1.cache, key, e)]
    IN  _update_access_order(c2, key)

clear_reset_counters(c, key) ==
    IF ~FalsyStr(key)
    THEN [_remove_entry(c, key[1]) EXCEPT !.hits = 0, !.misses = 0]
    ELSE [c EXCEPT !.cache = <<>>, !.access_order = <<>>,
                   !.hits = 0, !.misses = 0]

\* clear(key=None)
clear(c, key) ==
    IF ~FalsyStr(key)
    THEN IF HasKey(c, key[1])
         THEN [c EXCEPT !.cache = DictDel(c.cache, key[1]),
                        !.access_order =
                            IF InSeq(c.access_order, key[1])
                            THEN DequeRemove(c.access_order, key[1])
                            ELSE c.access_order]
         ELSE c
    ELSE [c EXCEPT !.cache = <<>>, !.access_order = <<>>]

\* A quotient of two integers (Python's true division), kept as a fraction.
Ratio(n, d) == [num |-> n, den |-> d]

RatEq(a, b) == a.num * b.den = b.num * a.den

\* get_stats()
get_stats(c) ==
    LET total_requests == c.hits + c.misses
    IN  [hits           |-> c.hits,
         misses         |-> c.misses,
         hit_ratio      |-> IF total_requests = 0 THEN Ratio(0, 1)
                            ELSE Ratio(c.hits, total_requests),
         total_requests |-> total_requests,
         items          |-> Cardinality(DOMAIN c.cache),
         max_items      |-> c.max_items]

(***************************************************************************)
(* RetryableOperation (utils/retryable.py).                                *)
(* An exception is [kind, id]: id is the number of the invocation of the   *)
(* operation that raised it (0 when run itself, or a logger, raised it).   *)
(***************************************************************************)
ExcKinds == {"ConnectionError", "TimeoutError", "BrokenPipeError",
             "ValueError", "CancelledError"}

\* isinstance(e, cls) for the built-in classes used: BrokenPipeError is a
\* ConnectionError; CancelledError is a BaseException but no Exception.
IsInstance(kind, cls) ==
    \/ kind = cls
    \/ kind = "BrokenPipeError" /\ cls = "ConnectionError"
    \/ cls = "Exception" /\ kind # "CancelledError"

\* retry_on of RetryableOperation.__init__ and of the gateway / retry_operation
DEFAULT_RETRY_ON == {"ConnectionError", "TimeoutError"}

NETWORK_RETRY_ON == {"ConnectionError", "TimeoutError", "BrokenPipeError"}

retryable_any(kind, retry_on) == IsInstance(kind, "Exception")

\* except self.retry_on as e
IsRetryable(kind, retry_on) == \E cls \in retry_on : IsInstance(kind, cls)

RECURSIVE Pow2(_)
Pow2(n) == IF n <= 0 THEN 1 ELSE 2 * Pow2(n - 1)

DELAY_CAP == 60000

backoff_linear(base_delay, retry_count) ==
    Min(base_delay * retry_count, DELAY_CAP)

\* min(self.base_delay * (2 ** (retry_count - 1)), 60)
BackoffDelay(base_delay, retry_count) ==
    Min(base_delay * Pow2(retry_count - 1), DELAY_CAP)

\* random.uniform(0, 0.5 * delay), drawn here as q quarters of the delay
JitterQuarters == {0, 1, 2}

JitterAmount(delay, q) == (delay * q) \div 4

RetryableOperation(loggers_ok, max_retries, base_delay, retry_on, jitter) ==
    [loggers_ok     |-> loggers_ok,
     max_retries    |-> max_retries,
     base_delay     |-> base_delay,
     retry_on       |-> retry_on,
     use_jitter     |-> jitter,
     pc             |-> "call",
     retry_count    |-> 0,
     last_exception |-> None,
     calls          |-> 0,
     sleeps         |-> <<>>,
     raised         |-> None,
     result         |-> None,
     allRetryable   |-> TRUE,
     opRaised       |-> None]

\* self.loggers[...].error(...) / .warning(...): a logger that has no such
\* method (retry_operation's print) raises AttributeError.
LogFails(r) == ~r.loggers_ok

AttributeError == [kind |-> "AttributeError", id |-> 0]

RuntimeError == [kind |-> "RuntimeError", id |-> 0]

Raise(r, e) == [r EXCEPT !.pc = "raised", !.raised = Some(e)]

\* raise last_exception or RuntimeError(...)
RaiseLast(r) ==
    Raise(r, IF r.last_exception = None THEN RuntimeError ELSE r.last_exception[1])

run_exhausted_early(r) == r.retry_count >= r.max_retries

\* if retry_count > self.max_retries
run_exhausted(r) == r.retry_count > r.max_retries

\* One pass of the while loop of run, from its condition to the sleep, the
\* return or the raise.  outcome is "ok" or the kind of the exception the
\* operation raises; q draws the jitter.
run_iteration(r, outcome, q) ==
    IF ~(r.retry_count <= r.max_retries)
    THEN RaiseLast(r)
    ELSE
    LET n  == r.calls + 1
        e  == [kind |-> outcome, id |-> n]
        r0 == [r EXCEPT !.calls = n,
                        !.opRaised = IF outcome = "ok" THEN None ELSE Some(e),
                        !.allRetryable =
                            @ /\ outcome # "ok" /\ IsRetryable(outcome, r.retry_on)]
    IN  IF outcome = "ok"
        THEN [r0 EXCEPT !.pc = "returned", !.result = Some("ok")]
        ELSE IF IsRetryable(outcome, r.retry_on)
        THEN LET r1 == [r0 EXCEPT !.retry_count = @ + 1,
                                  !.last_exception = Some(e)]
             IN  IF run_exhausted(r1)
                 THEN IF LogFails(r1) THEN Raise(r1, AttributeError)
                      ELSE RaiseLast(r1)
                 ELSE LET d     == BackoffDelay(r1.base_delay, r1.retry_count)
                          delay == IF r1.use_jitter
                                   THEN d + JitterAmount(d, q)
                                   ELSE d
                      IN  IF LogFails(r1) THEN Raise(r1, AttributeError)
                          ELSE [r1 EXCEPT
                                  !.pc = "sleeping",
                                  !.sleeps = Append(@, [base  |-> d,
                                                        delay |-> delay])]
        ELSE IF IsInstance(outcome, "Exception")
        THEN IF LogFails(r0) THEN Raise(r0, AttributeError) ELSE Raise(r0, e)
        ELSE Raise(r0, e)

\* retry_operation(operation, operation_name, max_retries, loggers): the
\* handler it builds and runs.  Without loggers ("if not loggers") the two
\* loggers are the function print, which has no .error and no .warning.
retry_operation(max_retries, loggers) ==
    RetryableOperation(loggers # None, max_retries, 1000, NETWORK_RETRY_ON, TRUE)

(***************************************************************************)
(* GoogleAPIsManager (apis/google_api_manager.py).                         *)
(*                                                                         *)
(* The gateway object is a record                                          *)
(*   [last_request_time, sheet, inventory_sheet, sheet_initialized, caches]*)
(* last_request_time is a dict in insertion order: a sequence of [api, t]. *)
(* The remote spreadsheet is rem = [orders], a function from the ids of    *)
(* the "COMPLETE ORDER" rows to [Status, Tracking, ver]; ver counts the     *)
(* cell writes to the row (history).                                        *)
(***************************************************************************)
INVENTORY_TTL == 300000

ORDERS_TTL == 60000

SHEETS_TTL == 120000

DRIVE_TTL == 600000

\* InventoryManager.__init__ (models/inventory.py): the empty dict is None
InventoryManager ==
    [_inventory_cache |-> None, _last_refresh |-> 0, _cache_ttl |-> 300000]

GoogleAPIsManager ==
    [last_request_time |-> <<>>,
     sheet             |-> FALSE,
     inventory_sheet   |-> FALSE,
     sheet_initialized |-> FALSE,
     caches |->
        [inventory |-> [EnhancedCache(20)  EXCEPT !.default_ttl = INVENTORY_TTL],
         orders    |-> [EnhancedCache(100) EXCEPT !.default_ttl = ORDERS_TTL],
         sheets    |-> [EnhancedCache(50)  EXCEPT !.default_ttl = SHEETS_TTL],
         drive     |-> [EnhancedCache(30)  EXCEPT !.default_ttl = DRIVE_TTL]]]

\* ---- _rate_limit_request ------------------------------------------------
\* min_wait_times.get(api_name, min_wait_times['default'])
MinWait(api) ==
    CASE api = "sheets"       -> 1000
      [] api = "sheets_read"  -> 500
      [] api = "sheets_write" -> 1200
      [] api = "drive"        -> 1500
      [] api = "inventory"    -> 800
      [] OTHER                -> 1000

LrtHas(lrt, api) == \E i \in 1..Len(lrt) : lrt[i].api = api

LrtIndex(lrt, api) == CHOOSE i \in 1..Len(lrt) : lrt[i].api = api

\* self.last_request_time.get(api_name, 0)
LrtGet(lrt, api) == IF LrtHas(lrt, api) THEN lrt[LrtIndex(lrt, api)].t ELSE 0

\* self.last_request_time[api_name] = t
LrtPut(lrt, api, t) ==
    IF LrtHas(lrt, api)
    THEN [lrt EXCEPT ![LrtIndex(lrt, api)].t = t]
    ELSE Append(lrt, [api |-> api, t |-> t])

RL_MAX_ENTRIES == 20

RL_KEEP == 10

\* sorted(items, key=lambda x: x[1], reverse=True): a stable sort, so items
\* of equal time keep their dict order.  Rank of item i in the result.
LrtRank(lrt, i) ==
    Cardinality({j \in 1..Len(lrt) :
                    lrt[j].t > lrt[i].t \/ (lrt[j].t = lrt[i].t /\ j < i)}) + 1

LrtSorted(lrt) ==
    [k \in 1..Len(lrt) |-> lrt[CHOOSE i \in 1..Len(lrt) : LrtRank(lrt, i) = k]]

\* the housekeeping at the end of _rate_limit_request
LrtCleanup(lrt) ==
    IF Len(lrt) > RL_MAX_ENTRIES
    THEN SubSeq(LrtSorted(lrt), 1, RL_KEEP)
    ELSE lrt

\* random.uniform(-0.1, 0.1), drawn here in percent
ThrottleJitter == {-10, 0, 10}

RL_BUFFER == 100

RL_MIN_SLEEP == 100

rate_limit_wait_floor(lrt, api, t, j) ==
    IF t - LrtGet(lrt, api) < MinWait(api) THEN RL_MIN_SLEEP ELSE 0

rate_limit_wait_le(lrt, api, t, j) ==
    IF t - LrtGet(lrt, api) <= MinWait(api)
    THEN Max(RL_MIN_SLEEP, MinWait(api) - (t - LrtGet(lrt, api)) + RL_BUFFER)
    ELSE 0

\* The first half of _rate_limit_request at time t: the time to sleep, 0 when
\* the call does not sleep.
rate_limit_wait(lrt, api, t, j) ==
    LET min_wait        == MinWait(api)
        time_since_last == t - LrtGet(lrt, api)
    IN  IF time_since_last < min_wait
        THEN LET wait_time == min_wait - time_since_last + RL_BUFFER
                 jitter    == (j * wait_time) \div 100
             IN  Max(RL_MIN_SLEEP, wait_time + jitter)
        ELSE 0

\* The second half, at time t (after the sleep, if any).
rate_limit_stamp(lrt, api, t) == LrtCleanup(LrtPut(lrt, api, t))

\* ---- _check_cache / _update_cache ---------------------------------------
CacheType(g, cache_type) ==
    IF cache_type \in DOMAIN g.caches THEN cache_type ELSE "inventory"

\* _check_cache: [g, hit, data]
_check_cache(g, cache_key, cache_type, max_age, t) ==
    LET ct == CacheType(g, cache_type)
        r  == get(g.caches[ct], cache_key, max_age, t)
    IN  [g |-> [g EXCEPT !.caches[ct] = r.c], hit |-> r.hit, data |-> r.data]

update_cache_short(g, cache_key, data, cache_type, ttl, t) ==
    LET ct == CacheType(g, cache_type)
    IN  [g EXCEPT !.caches[ct] = set(g.caches[ct], cache_key, data, Some(60000), t)]

update_cache_default_ttl(g, cache_key, data, cache_type, ttl, t) ==
    LET ct == CacheType(g, cache_type)
    IN  [g EXCEPT !.caches[ct] = set(g.caches[ct], cache_key, data, None, t)]

\* _update_cache: the gateway after (it returns data)
_update_cache(g, cache_key, data, cache_type, ttl, t) ==
    LET ct == CacheType(g, cache_type)
    IN  [g EXCEPT !.caches[ct] = set(g.caches[ct], cache_key, data, ttl, t)]

\* ---- inventory rows -----------------------------------------------------
DEFAULT_INVENTORY ==
    << [Name |-> "Unknown Indica", Type |-> "indica", Tag |-> "buds",  Price |-> 2000, Stock |-> 5],
       [Name |-> "Unknown Sativa", Type |-> "sativa", Tag |-> "buds",  Price |-> 2000, Stock |-> 5],
       [Name |-> "Unknown Hybrid", Type |-> "hybrid", Tag |-> "buds",  Price |-> 2000, Stock |-> 5],
       [Name |-> "Local BG",       Type |-> "",       Tag |-> "local", Price |-> 1000, Stock |-> 10],
       [Name |-> "Basic Cart",     Type |-> "",       Tag |-> "carts", Price |-> 1500, Stock |-> 3],
       [Name |-> "Basic Edible",   Type |-> "hybrid", Tag |-> "edibs", Price |-> 500,  Stock |-> 5] >>

\* the rows of the remote Inventory sheet
INVENTORY_SHEET ==
    << [Name |-> "Purple Kush", Type |-> "Indica", Tag |-> "Buds",  Price |-> 2500, Stock |-> 4],
       [Name |-> "Sold Out",    Type |-> "sativa", Tag |-> "buds",  Price |-> 2500, Stock |-> 0],
       [Name |-> "Mystery",     Type |-> "",       Tag |-> "other", Price |-> 100,  Stock |-> 1] >>

TAGS == {"buds", "local", "carts", "edibs"}

STRAINS == {"indica", "sativa", "hybrid"}

\* str.lower() on the strings that occur
Lower(str) ==
    CASE str = "Buds"   -> "buds"
      [] str = "Indica" -> "indica"
      [] OTHER          -> str

Product(item) ==
    [name   |-> item.Name,
     price  |-> item.Price,
     stock  |-> item.Stock,
     tag    |-> Lower(item.Tag),
     strain |-> Lower(item.Type)]

RECURSIVE SelectSeq2(_, _, _)
\* the products of seq, in order, whose field f is v
SelectSeq2(seq, f, v) ==
    IF seq = <<>> THEN <<>>
    ELSE LET rest == SelectSeq2(Tail(seq), f, v)
         IN  IF Head(seq)[f] = v THEN <<Head(seq)>> \o rest ELSE rest

RECURSIVE InStock(_)
\* the loop of fetch_inventory skips rows with Stock <= 0
InStock(rows) ==
    IF rows = <<>> THEN <<>>
    ELSE IF Head(rows).Stock <= 0 THEN InStock(Tail(rows))
    ELSE <<Head(rows)>> \o InStock(Tail(rows))

\* (products_by_tag, products_by_strain, all_products) of a list of rows
Catalog(rows, src) ==
    LET all == [i \in 1..Len(rows) |-> Product(rows[i])]
    IN  [src     |-> src,
         by_tag  |-> [tg \in TAGS |-> SelectSeq2(all, "tag", tg)],
         by_strain |-> [st \in STRAINS |-> SelectSeq2(all, "strain", st)],
         all     |-> all]

_create_default_inventory == Catalog(DEFAULT_INVENTORY, "default")

RemoteCatalog == Catalog(InStock(INVENTORY_SHEET), "remote")

\* ---- the calls of the gateway, as coroutines ------------------------------
\* A call runs without interruption up to its next asyncio.sleep (in
\* _rate_limit_request, in RetryableOperation.run, in update_sheet_cells): the
\* gspread calls are synchronous.  A session m is
\*   [pc, op, id, new_status, tracking, wake, rh, field, outcome, sheet_ret, inv_ret,
\*    res, hit, age0, ord0, row0, overlap, payload, tries, afterAdd, reads,
\*    inits, failed, via, force, now0, fb0, fail0]
\* via is the caller of the gateway method when that is InventoryManager.
\* get_inventory, force and now0 its force_refresh and its local now.
\* pc is "idle" or the phase at which the sleeping call resumes at time wake.
\* w = [g, rem, m, hist, im, t, o, nremote, used, run] is the world of one
\* run: the gateway, the remote sheet, the session, the history, the
\* inventory manager, the time, the
\* draws of this run (o), the number of backend accesses it has made, the
\* draws it has used and whether it goes on.
NoSession ==
    [pc |-> "idle", op |-> "none", id |-> "", new_status |-> "",
     tracking |-> FALSE, wake |-> 0, rh |-> None, field |-> 0, outcome |-> "",
     sheet_ret |-> FALSE, inv_ret |-> FALSE, res |-> None, hit |-> FALSE,
     age0 |-> None, ord0 |-> None, row0 |-> None, overlap |-> FALSE,
     payload |-> "", tries |-> <<>>, afterAdd |-> FALSE,
     reads |-> 0, inits |-> 0,
     failed |-> FALSE, via |-> "", force |-> FALSE, now0 |-> 0,
     fb0 |-> FALSE, fail0 |-> FALSE]

OrderKey(order_id) ==
    CASE order_id = "o1" -> "order_o1"
      [] order_id = "o2" -> "order_o2"
      [] OTHER           -> "order_"

INVENTORY_KEY == "inventory_data"

ORDER_MAX_AGE == 30000

NOT_FOUND_TTL == 30000

CELL_DELAY == 500

GATEWAY_MAX_RETRIES == 3

GATEWAY_BASE_DELAY == 1000

\* what a backend access does: it works, or raises
RemoteOutcomes == {"ok", "ConnectionError", "APIError"}

\* what the body of initialize_sheets achieves
InitOutcomes == {"ok", "orders_only", "fail"}

\* the call is over: its locals (the retry handler among them) are gone
\* (a fetch_inventory called by get_inventory returns into get_inventory)
W_Return(w, val) ==
    [w EXCEPT !.run = (w.m.via = "get_inventory"),
              !.m.pc = IF w.m.via = "get_inventory" THEN "im_return" ELSE "idle",
              !.m.rh = None, !.m.wake = 0,
              !.m.field = 0, !.m.outcome = "",
              !.m.res = [raised |-> FALSE, val |-> val]]

W_Raise(w, kind) ==
    [w EXCEPT !.run = FALSE, !.m.pc = "idle", !.m.rh = None, !.m.wake = 0,
              !.m.field = 0, !.m.outcome = "",
              !.m.res = [raised |-> TRUE, val |-> kind]]

W_Sleep(w, phase, d) ==
    [w EXCEPT !.run = FALSE, !.m.pc = phase, !.m.wake = w.t + d]

W_Stamp(w, api) ==
    [w EXCEPT !.g.last_request_time = rate_limit_stamp(@, api, w.t),
              !.hist.ncuts = IF Len(LrtPut(w.g.last_request_time, api, w.t))
                                    > RL_MAX_ENTRIES
                             THEN @ + 1 ELSE @]

Initialised(g) == g.sheet_initialized /\ g.sheet /\ g.inventory_sheet

\* The body of initialize_sheets after its throttle: [g, sheet, inv], the
\* gateway after and the pair it returns (as truth values).
initialize_sheets_body(g, outcome) ==
    CASE outcome = "fail" ->
            [g |-> g, sheet |-> FALSE, inv |-> FALSE]
      [] outcome = "orders_only" ->
            [g     |-> [g EXCEPT !.sheet = TRUE, !.sheet_initialized = TRUE],
             sheet |-> TRUE,
             inv   |-> g.inventory_sheet]
      [] OTHER ->
            [g     |-> [g EXCEPT !.sheet = TRUE, !.inventory_sheet = TRUE,
                                 !.sheet_initialized = TRUE],
             sheet |-> TRUE,
             inv   |-> TRUE]

api_of_operation(op) == op

\* the class name each method passes to _rate_limit_request
ApiOf(op) ==
    CASE op = "fetch_inventory"           -> "inventory"
      [] op = "get_order_details"         -> "sheets_read"
      [] op = "upload_payment_screenshot" -> "drive"
      [] OTHER                            -> "sheets_write"

\* the row dict of an order, as get_all_records returns it
OrderRecord(rem, order_id) ==
    [id |-> order_id] @@ rem.orders[order_id]

UpdateFields(m) == IF m.tracking THEN <<"Status", "Tracking">> ELSE <<"Status">>

\* sheet.update_cell(row_number, col_idx, value)
update_cell(rem, m, field) ==
    IF field = "Status"
    THEN [rem EXCEPT !.orders[m.id].Status = m.new_status,
                     !.orders[m.id].ver = @ + 1]
    ELSE [rem EXCEPT !.orders[m.id].Tracking = "link",
                     !.orders[m.id].ver = @ + 1]

\* sheet.insert_row / append_row of a new main row
insert_row(rem, order_id) ==
    IF order_id \in DOMAIN rem.orders THEN rem
    ELSE [rem EXCEPT !.orders =
            [k \in (DOMAIN rem.orders) \cup {order_id} |->
                IF k = order_id
                THEN [Status |-> "pending", Tracking |-> "", ver |-> 0]
                ELSE rem.orders[k]]]

fetch_catches_network(kind) == IsRetryable(kind, NETWORK_RETRY_ON)

\* except Exception as e, in the gateway's handlers
fetch_catches(kind) == IsInstance(kind, "Exception")

fetch_fallback_uncached(w) ==
    W_Return([w EXCEPT
                !.m.failed = TRUE,
                !.hist.invWin = Some([at |-> w.t, reads |-> w.m.reads,
                                      sheet |-> w.m.inv_ret,
                                      fallback |-> TRUE])],
             _create_default_inventory)

\* fetch_inventory's fallback: the default catalog, cached
fetch_fallback(w) ==
    LET d == _create_default_inventory
    IN  W_Return([w EXCEPT
                    !.m.failed = TRUE,
                    !.hist.invWin = Some([at |-> w.t, reads |-> w.m.reads,
                                          sheet |-> w.m.inv_ret,
                                          fallback |-> TRUE]),
                    !.g = _update_cache(w.g, INVENTORY_KEY, Some(d), "inventory",
                                        None, w.t)],
                 d)

update_clear_none(g, order_id) == g

\* update_order_status: self.caches["orders"].clear(cache_key)
update_clear(g, order_id) ==
    [g EXCEPT !.caches.orders = clear(@, Some(OrderKey(order_id)))]

add_clear_key(g, order_id) ==
    [g EXCEPT !.caches.orders = clear(@, Some(OrderKey(order_id)))]

\* add_order_to_sheet: self.caches['orders'].clear()
add_clear(g, order_id) == [g EXCEPT !.caches.orders = clear(@, None)]

\* the call goes on, in this run, at a phase
Goto(w, phase) == [w EXCEPT !.m.pc = phase]

\* await self._rate_limit_request(api), then the phase that follows it
RLThen(w, api, phase) ==
    LET d == rate_limit_wait(w.g.last_request_time, api, w.t, w.o.j)
    IN  IF d > 0 THEN W_Sleep(w, phase, d) ELSE Goto(w, phase)

\* one invocation of the operation under RetryableOperation.run has had an
\* outcome: run sleeps, returns or raises, and the caller goes on
invoked_ok(w, outcome) ==
    Goto([w EXCEPT !.m.outcome = "ok", !.m.tries = Append(@, outcome)],
         "invoked")

Invoked(w, outcome) ==
    Goto([w EXCEPT !.m.outcome = outcome, !.m.tries = Append(@, outcome)],
         "invoked")

cache_hit_throttled(w, data) == W_Return(W_Stamp(w, ApiOf(w.m.op)), data)

\* if is_valid: return cached_data
cache_hit(w, data) == W_Return(w, data)

start_call_single_flight(w) ==
    CASE w.m.op = "fetch_inventory" ->
            LET c == _check_cache(w.g, INVENTORY_KEY, "inventory", None, w.t)
                w1 == [w EXCEPT !.g = c.g, !.m.hit = c.hit]
            IN  IF c.hit THEN cache_hit(w1, c.data[1]) ELSE Goto(w1, "init")
      [] w.m.op = "get_order_details" ->
            LET c == _check_cache(w.g, OrderKey(w.m.id), "orders",
                                  Some(ORDER_MAX_AGE), w.t)
                w1 == [w EXCEPT !.g = c.g, !.m.hit = c.hit,
                                !.hist.addedNoGet = FALSE,
                                !.hist.ordFail[w.m.id] = FALSE]
            IN  IF c.hit THEN cache_hit(w1, c.data)
                ELSE IF w.m.overlap THEN W_Return(w1, None)
                ELSE Goto(w1, "init")
      [] w.m.op = "upload_payment_screenshot" ->
            RLThen(w, ApiOf(w.m.op), "upload")
      [] OTHER -> Goto(w, "init")

\* InventoryManager.get_inventory(force_refresh) up to its call of
\* fetch_inventory, or to its return of the data it holds
get_inventory(w) ==
    IF w.m.force \/ w.im._inventory_cache = None
          \/ w.t - w.im._last_refresh > w.im._cache_ttl
    THEN [w EXCEPT !.m.op = "fetch_inventory", !.m.via = "get_inventory",
                   !.m.now0 = w.t]
    ELSE [w EXCEPT !.run = FALSE, !.m.pc = "idle", !.m.now0 = w.t,
                   !.m.res = [raised |-> FALSE,
                              val |-> w.im._inventory_cache[1]]]

\* the entry of a call: fetch_inventory and get_order_details check the cache
StartCall(w) ==
    CASE w.m.op = "get_inventory" -> get_inventory(w)
      [] w.m.op = "fetch_inventory" ->
            LET c == _check_cache(w.g, INVENTORY_KEY, "inventory", None, w.t)
                w1 == [w EXCEPT !.g = c.g, !.m.hit = c.hit]
            IN  IF c.hit THEN cache_hit(w1, c.data[1]) ELSE Goto(w1, "init")
      [] w.m.op = "get_order_details" ->
            LET c == _check_cache(w.g, OrderKey(w.m.id), "orders",
                                  Some(ORDER_MAX_AGE), w.t)
                w1 == [w EXCEPT !.g = c.g, !.m.hit = c.hit,
                                !.hist.addedNoGet = FALSE,
                                !.hist.ordFail[w.m.id] = FALSE]
            IN  IF c.hit THEN cache_hit(w1, c.data) ELSE Goto(w1, "init")
      [] w.m.op = "upload_payment_screenshot" ->
            RLThen(w, ApiOf(w.m.op), "upload")
      [] OTHER -> Goto(w, "init")

\* initialize_sheets, up to its throttle
PhaseInit(w) ==
    IF Initialised(w.g)
    THEN Goto([w EXCEPT !.m.sheet_ret = TRUE, !.m.inv_ret = TRUE], "after_init")
    ELSE RLThen(w, "sheets", "init_body")

\* initialize_sheets, after its throttle
PhaseInitBody(w) ==
    LET w1 == W_Stamp(w, "sheets")
        r  == initialize_sheets_body(w1.g, w.o.init)
    IN  Goto([w1 EXCEPT !.g = r.g, !.m.sheet_ret = r.sheet,
                        !.used = @ \cup {"init"},
                        !.m.inv_ret = r.inv, !.m.inits = @ + 1,
                        !.nremote = @ + 1],
             "after_init")

\* the caller of initialize_sheets has its result
PhaseAfterInit(w) ==
    IF w.m.op = "initialize_sheets"
    THEN W_Return(w, <<w.m.sheet_ret, w.m.inv_ret>>)
    ELSE IF w.m.op = "fetch_inventory" /\ ~w.m.inv_ret
    THEN fetch_fallback(w)
    ELSE IF w.m.op # "fetch_inventory" /\ ~w.m.sheet_ret
    THEN W_Return([w EXCEPT !.m.failed = TRUE,
                            !.hist.ordFail =
                                IF w.m.op = "get_order_details"
                                THEN [@ EXCEPT ![w.m.id] = TRUE] ELSE @],
                  IF w.m.op = "get_order_details" THEN None ELSE FALSE)
    ELSE RLThen(w, ApiOf(w.m.op), "op")

\* fetch_inventory after its throttle: the read and what follows
fetch_inventory_read(w1) ==
    IF w1.o.read = "ok"
    THEN W_Return([w1 EXCEPT
                     !.hist.invWin = Some([at |-> w1.t, reads |-> w1.m.reads,
                                           sheet |-> w1.m.inv_ret,
                                           fallback |-> FALSE]),
                     !.g = _update_cache(w1.g, INVENTORY_KEY, Some(RemoteCatalog),
                                         "inventory", None, w1.t)],
                  RemoteCatalog)
    ELSE IF fetch_catches(w1.o.read)
    THEN fetch_fallback(w1)
    ELSE W_Raise(w1, w1.o.read)

get_order_details_read_negcache(w1) ==
    IF w1.o.read = "ok"
    THEN IF w1.m.id \in DOMAIN w1.rem.orders
         THEN LET rec == OrderRecord(w1.rem, w1.m.id)
              IN  W_Return([w1 EXCEPT
                              !.hist.ordWin[w1.m.id] =
                                  Some([at |-> w1.t, found |-> TRUE]),
                              !.g =
                              _update_cache(w1.g, OrderKey(w1.m.id), Some(rec),
                                            "orders", None, w1.t)],
                           Some(rec))
         ELSE W_Return([w1 EXCEPT
                          !.hist.ordWin[w1.m.id] =
                              Some([at |-> w1.t, found |-> FALSE]),
                          !.g =
                          _update_cache(w1.g, OrderKey(w1.m.id), None, "orders",
                                        Some(NOT_FOUND_TTL), w1.t)],
                       None)
    ELSE W_Return([w1 EXCEPT
                     !.m.failed = TRUE,
                     !.hist.ordFail[w1.m.id] = TRUE,
                     !.g = _update_cache(w1.g, OrderKey(w1.m.id), None, "orders",
                                         Some(NOT_FOUND_TTL), w1.t)],
                  None)

\* get_order_details after its throttle
get_order_details_read(w1) ==
    IF w1.o.read = "ok"
    THEN IF w1.m.id \in DOMAIN w1.rem.orders
         THEN LET rec == OrderRecord(w1.rem, w1.m.id)
              IN  W_Return([w1 EXCEPT
                              !.hist.ordWin[w1.m.id] =
                                  Some([at |-> w1.t, found |-> TRUE]),
                              !.g =
                              _update_cache(w1.g, OrderKey(w1.m.id), Some(rec),
                                            "orders", None, w1.t)],
                           Some(rec))
         ELSE W_Return([w1 EXCEPT
                          !.hist.ordWin[w1.m.id] =
                              Some([at |-> w1.t, found |-> FALSE]),
                          !.g =
                          _update_cache(w1.g, OrderKey(w1.m.id), None, "orders",
                                        Some(NOT_FOUND_TTL), w1.t)],
                       None)
    ELSE IF fetch_catches(w1.o.read)
    THEN W_Return([w1 EXCEPT !.m.failed = TRUE,
                             !.hist.ordFail[w1.m.id] = TRUE], None)
    ELSE W_Raise(w1, w1.o.read)

\* update_order_status after its throttle: the read and the search of the row
update_order_status_read(w1) ==
    IF w1.o.read = "ok"
    THEN IF w1.m.id \in DOMAIN w1.rem.orders
         THEN Goto(w1, "retry")
         ELSE W_Return(w1, FALSE)
    ELSE IF fetch_catches(w1.o.read)
    THEN W_Return([w1 EXCEPT !.m.failed = TRUE], FALSE)
    ELSE W_Raise(w1, w1.o.read)

\* the method after its throttle: the stamp, then its first backend access
\* (for add_order_to_sheet, col_values, whose failure only selects append_row)
PhaseOp(w) ==
    LET w1 == [W_Stamp(w, ApiOf(w.m.op)) EXCEPT
                  !.m.reads = @ + 1, !.nremote = @ + 1,
                  !.m.rh = IF w.m.op \in {"fetch_inventory", "get_order_details"}
                           THEN @
                           ELSE RetryableOperation(TRUE, GATEWAY_MAX_RETRIES,
                                    GATEWAY_BASE_DELAY, NETWORK_RETRY_ON, TRUE),
                  !.used = IF w.m.op = "add_order_to_sheet" THEN @
                           ELSE @ \cup {"read"}]
    IN  CASE w.m.op = "fetch_inventory"    -> fetch_inventory_read(w1)
          [] w.m.op = "get_order_details"  -> get_order_details_read(w1)
          [] w.m.op = "add_order_to_sheet" -> Goto(w1, "retry")
          [] OTHER                         -> update_order_status_read(w1)

phase_upload_unchecked(w) ==
    Goto([W_Stamp(w, ApiOf(w.m.op)) EXCEPT
             !.m.rh = RetryableOperation(TRUE, GATEWAY_MAX_RETRIES,
                          GATEWAY_BASE_DELAY, NETWORK_RETRY_ON, TRUE)],
         "retry")

\* upload_payment_screenshot after its throttle (with a drive service): the
\* stamp, the check of file_bytes and the retry handler
PhaseUpload(w) ==
    LET w1 == W_Stamp(w, ApiOf(w.m.op))
    IN  IF w.m.payload = ""
        THEN W_Raise(w1, "ValueError")
        ELSE Goto([w1 EXCEPT
                      !.m.rh = RetryableOperation(TRUE, GATEWAY_MAX_RETRIES,
                                   GATEWAY_BASE_DELAY, NETWORK_RETRY_ON, TRUE)],
                  "retry")

\* RetryableOperation.run invokes the operation: perform_upload (which turns
\* an API error into a RuntimeError), add_to_sheet, or update_sheet_cells
\* from its first field
PhaseRetry(w) ==
    IF w.m.op = "upload_payment_screenshot"
    THEN Invoked([w EXCEPT !.nremote = @ + 1, !.used = @ \cup {"write"}],
                 IF w.o.write = "APIError" THEN "RuntimeError" ELSE w.o.write)
    ELSE IF w.m.op = "add_order_to_sheet"
    THEN LET w1 == [w EXCEPT !.nremote = @ + 1, !.used = @ \cup {"write"}]
         IN  IF w.o.write = "ok"
             THEN Invoked([w1 EXCEPT !.rem = insert_row(@, w.m.id)], "ok")
             ELSE Invoked(w1, w.o.write)
    ELSE Goto([w EXCEPT !.m.field = 1], "cells")

\* update_sheet_cells at the update of field number m.field
PhaseCells(w) ==
    LET fields == UpdateFields(w.m)
        w1 == [w EXCEPT !.nremote = @ + 1, !.used = @ \cup {"write"}]
    IN  IF w.m.field > Len(fields)
        THEN Invoked(w, "ok")
        ELSE IF w.o.write = "ok"
        THEN W_Sleep([w1 EXCEPT !.rem = update_cell(@, w.m, fields[w.m.field]),
                                !.m.field = @ + 1],
                     "cells", CELL_DELAY)
        ELSE Invoked(w1, w.o.write)

\* run after an invocation, and the caller after run
PhaseInvoked(w) ==
    LET r  == run_iteration(w.m.rh, w.m.outcome, w.o.q)
        w1 == [w EXCEPT !.m.rh = r]
    IN  CASE r.pc = "sleeping" ->
               W_Sleep([w1 EXCEPT !.m.rh.pc = "call"], "retry",
                       r.sleeps[Len(r.sleeps)].delay)
          [] r.pc = "returned" /\ w.m.op = "upload_payment_screenshot" ->
               W_Return(w1, "webViewLink")
          [] r.pc = "raised" /\ w.m.op = "upload_payment_screenshot" ->
               \* every handler of upload_payment_screenshot raises again
               W_Raise(w1, r.raised[1].kind)
          [] r.pc = "returned" /\ w.m.op = "add_order_to_sheet" ->
               W_Return([w1 EXCEPT !.g = add_clear(@, w.m.id),
                                   !.hist.ordWin = [k \in DOMAIN @ |-> None],
                                   !.hist.addedNoGet = TRUE],
                        TRUE)
          [] r.pc = "returned" /\ w.m.op # "add_order_to_sheet" ->
               W_Return([w1 EXCEPT !.g = update_clear(@, w.m.id),
                                   !.hist.ordWin[w.m.id] = None,
                                   !.hist.fresh[w.m.id] = w.rem.orders[w.m.id].ver],
                        TRUE)
          [] OTHER ->
               \* run raised: the method's except Exception returns failure
               IF fetch_catches(r.raised[1].kind)
               THEN W_Return(w1, FALSE)
               ELSE W_Raise(w1, r.raised[1].kind)

\* ---- OrderManager (models/order.py) ------------------------------------
\* OrderManager.get_order_details on the outcome of the gateway's call:
\* except Exception returns None
OrderManager_get_order_details(res) ==
    IF res.raised
    THEN IF IsInstance(res.val, "Exception")
         THEN [raised |-> FALSE, val |-> None]
         ELSE res
    ELSE res

\* OrderManager.get_order_status on the outcome of the gateway's call: the
\* tuple (status, tracking_link, error_message), or what it raises
get_order_status(res) ==
    LET d == OrderManager_get_order_details(res)
    IN  IF d.raised
        THEN IF IsInstance(d.val, "Exception")
             THEN [raised |-> FALSE,
                   val |-> <<None, None,
                             "An error occurred while checking order status.">>]
             ELSE d
        ELSE IF d.val = None
        THEN [raised |-> FALSE,
              val |-> <<None, None,
                        "Order not found. Please check your Order ID.">>]
        ELSE [raised |-> FALSE,
              val |-> <<Some(d.val[1].Status), Some(d.val[1].Tracking), None>>]

\* get_inventory after fetch_inventory returned: the cache is replaced,
\* _last_refresh is the now read at the entry of the call
get_inventory_return(w) ==
    [w EXCEPT !.run = FALSE, !.m.pc = "idle",
              !.im._inventory_cache = Some(w.m.res.val),
              !.im._last_refresh = w.m.now0,
              !.hist.imOrigin = Some(w.hist.invWin[1].at)]

\* the call from one phase to the next
Step(w) ==
    CASE w.m.pc = "start"      -> StartCall(w)
      [] w.m.pc = "im_return"  -> get_inventory_return(w)
      [] w.m.pc = "init"       -> PhaseInit(w)
      [] w.m.pc = "init_body"  -> PhaseInitBody(w)
      [] w.m.pc = "after_init" -> PhaseAfterInit(w)
      [] w.m.pc = "op"         -> PhaseOp(w)
      [] w.m.pc = "upload"     -> PhaseUpload(w)
      [] w.m.pc = "retry"      -> PhaseRetry(w)
      [] w.m.pc = "cells"      -> PhaseCells(w)
      [] OTHER                 -> PhaseInvoked(w)

RECURSIVE Exec(_)
\* the call runs until it sleeps (w.run is then false) or is over
Exec(w) == IF w.run THEN Exec(Step(w)) ELSE w

(***************************************************************************)
(* SpecCache: one EnhancedCache driven by arbitrary get / set / clear      *)
(* calls while the clock advances.                                         *)
(***************************************************************************)
Keys == {"A", "B", "C"}

Values == {Some("v1"), Some("v2")}

\* The callers' keys and values: three keys with one value.
CacheUniverses == {[keys |-> Keys, values |-> {Some("v1")}, gets |-> MaxGets]}

\* The callers of the statistics: two keys, and up to MaxStatGets lookups.
StatUniverses ==
    {[keys |-> {"A", "B"}, values |-> Values, gets |-> MaxStatGets]}

\* ttl arguments of set: omitted, 0 (falsy) and 30 s.
TtlArgs == {None, Some(0), Some(30000)}

\* key arguments of clear: omitted, a key of the callers, or the empty string.
ClearArgs(keys) == {None} \cup {Some(k) : k \in keys \cup {""}}

CacheTickSteps == {30000}

Resident(c) == DOMAIN c.cache

\* history update: key becomes the most recently used
Touch(q, key) ==
    Append(IF InSeq(q, key) THEN DequeRemove(q, key) ELSE q, key)

\* pre: the object before the call; arg: the optional argument of the call
\* (ttl of set, key of clear); out: what set returned; gets: the number of
\* get calls made so far.
NoRet == [op |-> "init", key |-> "", hit |-> FALSE, data |-> None,
          evicted |-> {}, full |-> FALSE, pre |-> None, arg |-> None,
          out |-> None, gets |-> 0]

\* The parts of the state a specification does not drive stay as built.
RetryIdle == rt = None

GwIdle ==
    /\ gw = None
    /\ remote = None
    /\ sess = None
    /\ hist = None
    /\ obs = None
    /\ im = None
    /\ env = None

ClockStart == now = 0 /\ nticks = 0

CacheIdle ==
    /\ ec = EnhancedCache(1)
    /\ ret = NoRet
    /\ useOrder = <<>>
    /\ setInfo = [k \in Keys |-> None]
    /\ scen = 0
    /\ univ = [keys |-> {}, values |-> {}, gets |-> 0]

InitCache ==
    /\ RetryIdle
    /\ GwIdle
    /\ \E m \in 1..MaxCap : ec = EnhancedCache(m)
    /\ now = 0
    /\ nticks = 0
    /\ ret = NoRet
    /\ useOrder = <<>>
    /\ setInfo = [k \in Keys |-> None]
    /\ scen = 0
    /\ univ \in CacheUniverses

CacheTick ==
    /\ nticks < MaxTicks
    /\ \E d \in CacheTickSteps : now' = now + d
    /\ nticks' = nticks + 1
    /\ ret' = [NoRet EXCEPT !.op = "tick", !.gets = ret.gets]
    /\ UNCHANGED <<ec, useOrder, setInfo, scen, univ>>
    /\ UNCHANGED <<retryVars, gwVars>>

CacheGet ==
    /\ ret.gets < univ.gets
    /\ \E k \in univ.keys :
        LET r == get(ec, k, None, now)
        IN  /\ ec' = r.c
            /\ ret' = [NoRet EXCEPT !.op = "get", !.key = k, !.hit = r.hit,
                                    !.data = r.data, !.pre = Some(ec),
                                    !.gets = ret.gets + 1]
            /\ useOrder' = IF r.hit THEN Touch(useOrder, k) ELSE useOrder
            /\ setInfo' = IF r.hit /\ setInfo[k] # None
                           THEN [setInfo EXCEPT ![k][1].hits = @ + 1]
                           ELSE setInfo
            /\ scen' = IF scen = 2 /\ k = "A" /\ r.hit THEN 3 ELSE 9
    /\ UNCHANGED <<now, nticks, univ>>
    /\ UNCHANGED <<retryVars, gwVars>>

CacheSet ==
    /\ \E k \in univ.keys, v \in univ.values, ttl \in TtlArgs :
        LET c2 == set(ec, k, v, ttl, now)
            ev == Resident(ec) \ Resident(c2)
        IN  /\ ec' = c2
            /\ ret' = [NoRet EXCEPT
                         !.op = "set", !.key = k, !.data = v, !.evicted = ev,
                         !.full = (k \notin Resident(ec)
                                   /\ Cardinality(Resident(ec)) >= ec.max_items),
                         !.pre = Some(ec), !.arg = ttl, !.out = v,
                         !.gets = ret.gets]
            /\ useOrder' = Touch(useOrder, k)
            /\ setInfo' = [x \in Keys |->
                             IF x = k THEN Some([t0 |-> now, T |-> c2.cache[k].ttl,
                                                 v |-> v, hits |-> 0])
                             ELSE IF x \in ev THEN None
                             ELSE setInfo[x]]
            /\ scen' = CASE scen = 0 /\ ec.max_items = 2 /\ Resident(ec) = {}
                                     /\ k = "A" -> 1
                         [] scen = 1 /\ k = "B" -> 2
                         [] scen = 3 /\ k = "C" -> 4
                         [] OTHER -> 9
    /\ UNCHANGED <<now, nticks, univ>>
    /\ UNCHANGED <<retryVars, gwVars>>

CacheClear ==
    /\ \E a \in ClearArgs(univ.keys) :
        /\ ec' = clear(ec, a)
        /\ ret' = [NoRet EXCEPT !.op = "clear",
                                !.key = IF a = None THEN "" ELSE a[1],
                                !.pre = Some(ec), !.arg = a,
                                !.gets = ret.gets]
        /\ setInfo' = [x \in Keys |->
                         IF x \in Resident(clear(ec, a)) THEN setInfo[x]
                         ELSE None]
        /\ scen' = 9
    /\ UNCHANGED <<now, nticks, useOrder, univ>>
    /\ UNCHANGED <<retryVars, gwVars>>

NextCache == CacheTick \/ CacheGet \/ CacheSet \/ CacheClear

SpecCache == InitCache /\ [][NextCache]_vars

InitCacheStats ==
    /\ RetryIdle
    /\ GwIdle
    /\ ec = EnhancedCache(1)
    /\ now = 0
    /\ nticks = 0
    /\ ret = NoRet
    /\ useOrder = <<>>
    /\ setInfo = [k \in Keys |-> None]
    /\ scen = 0
    /\ univ \in StatUniverses

SpecCacheStats == InitCacheStats /\ [][NextCache]_vars

(***************************************************************************)
(* Claims about EnhancedCache, checked under SpecCache.                    *)
(***************************************************************************)
Pos(q, x) == IndexOf(q, x)

\* C1: with max_items >= 1, after any sequence of get, set and clear calls
\* the number of resident entries is at most max_items.
C1_SizeAtMostCapacity ==
    ec.max_items >= 1 => Cardinality(Resident(ec)) <= ec.max_items

\* a set of a new key has just filled the cache by evicting an entry
C1_Witness ==
    /\ ret.op = "set" /\ ret.full /\ ret.evicted # {}
    /\ Cardinality(Resident(ec)) = ec.max_items
    /\ ec.max_items = MaxCap

\* C2: the keys of access_order are exactly the keys of cache, and no key
\* appears twice in access_order.
C2_RecencyLockstep ==
    /\ {ec.access_order[i] : i \in 1..Len(ec.access_order)} = Resident(ec)
    /\ \A i, j \in 1..Len(ec.access_order) :
          ec.access_order[i] = ec.access_order[j] => i = j

\* a hit-get has just moved a key of a two-entry cache to the tail
C2_Witness ==
    /\ ret.op = "get" /\ ret.hit
    /\ Len(ec.access_order) = 2
    /\ ec.access_order[2] = ret.key

\* C3: a set of a new key into a full cache evicts exactly one entry, the
\* resident key whose last set / hit-get is the oldest; and with capacity 2,
\* set A, set B, get A (hit), set C leaves A and C resident and evicts B.
C3_LruEviction ==
    /\ (ret.op = "set" /\ ret.full) =>
          \E e \in ret.evicted :
             /\ ret.evicted = {e}
             /\ e # ret.key
             /\ ret.key \in Resident(ec)
             /\ InSeq(useOrder, e)
             /\ \A k \in Resident(ec) :
                   InSeq(useOrder, k) /\ Pos(useOrder, e) < Pos(useOrder, k)
    /\ scen = 4 => Resident(ec) = {"A", "C"}
    /\ (scen = 4 /\ ret.op = "set") => ret.evicted = {"B"}

\* the scenario of the claim has just run to its end
C3_Witness == scen = 4 /\ ret.op = "set" /\ ret.full /\ ret.key = "C"

\* C4: a get of a key at time t, whose entry was set at t0 with time-to-live T
\* and not set again, cleared or evicted since, hits iff t - t0 <= T.
C4_TtlBoundary ==
    (ret.op = "get" /\ setInfo[ret.key] # None) =>
        LET s == setInfo[ret.key][1]
        IN  ret.hit <=> (now - s.t0 <= s.T)

\* a get exactly T after the set has just hit
C4_Witness ==
    /\ ret.op = "get" /\ ret.hit
    /\ setInfo[ret.key] # None
    /\ now - setInfo[ret.key][1].t0 = setInfo[ret.key][1].T

\* a get more than T after the set has just missed
C4_MissReached ==
    /\ ret.op = "get" /\ ~ret.hit
    /\ setInfo[ret.key] # None
    /\ now - setInfo[ret.key][1].t0 > setInfo[ret.key][1].T

(***************************************************************************)
(* SpecRetry: one call of RetryableOperation.run on an operation that      *)
(* returns or raises as it likes.                                          *)
(***************************************************************************)
RetryOutcomes == {"ok"} \cup ExcKinds

\* base_delay arguments: the default 1 s, and 40 s (whose doubling is capped)
BaseDelays == {1000, 40000}

InitRetry ==
    /\ CacheIdle
    /\ GwIdle
    /\ ClockStart
    /\ \E lg \in BOOLEAN, n \in (-1)..MaxRetries, b \in BaseDelays,
          ro \in {DEFAULT_RETRY_ON, NETWORK_RETRY_ON}, j \in BOOLEAN :
          rt = RetryableOperation(lg, n, b, ro, j)

\* the operation is invoked (or the loop is not entered) and run goes on to
\* its next suspension point or its end
RetryAttempt ==
    /\ rt.pc = "call"
    /\ \E outcome \in RetryOutcomes, q \in JitterQuarters :
          rt' = run_iteration(rt, outcome, q)
    /\ UNCHANGED <<cacheVars, gwVars>>

\* await asyncio.sleep(delay) completes
RetryWake ==
    /\ rt.pc = "sleeping"
    /\ rt' = [rt EXCEPT !.pc = "call"]
    /\ UNCHANGED <<cacheVars, gwVars>>

NextRetry == RetryAttempt \/ RetryWake

SpecRetry == InitRetry /\ [][NextRetry]_vars

(***************************************************************************)
(* Claims about RetryableOperation, checked under SpecRetry.               *)
(***************************************************************************)
\* C10: with max_retries = N >= 0 (and loggers that are logger objects), an
\* operation that raises a retryable error on every invocation is invoked
\* exactly N+1 times, run sleeps exactly N times, and run ends by raising the
\* exception of the last invocation.
C10_Exhaustion ==
    /\ (rt.loggers_ok /\ rt.max_retries >= 0 /\ rt.allRetryable) =>
          /\ rt.pc \notin {"returned"}
          /\ rt.calls <= rt.max_retries + 1
          /\ rt.pc = "call" => rt.calls <= rt.max_retries
          /\ rt.pc = "raised" =>
                /\ rt.calls = rt.max_retries + 1
                /\ Len(rt.sleeps) = rt.max_retries
                /\ rt.raised = rt.opRaised
                /\ rt.raised[1].id = rt.calls
                /\ IsRetryable(rt.raised[1].kind, rt.retry_on)
          /\ rt.pc = "sleeping" => Len(rt.sleeps) = rt.calls

\* max_retries = 3: four failing invocations, three sleeps, then the raise
C10_Witness ==
    /\ rt.loggers_ok /\ rt.allRetryable /\ rt.max_retries = 3
    /\ rt.pc = "raised" /\ rt.calls = 4 /\ Len(rt.sleeps) = 3
    /\ rt.raised = Some([kind |-> "TimeoutError", id |-> 4])

\* C11: when an invocation of the operation raises an exception that is an
\* instance of no class of retry_on, on whatever attempt, run ends at once by
\* raising that exception: the invocation that raised it is the last one and
\* no sleep follows it (the sleeps are those after the earlier invocations).
C11_FastFail ==
    (/\ rt.loggers_ok
     /\ rt.opRaised # None
     /\ \A cls \in rt.retry_on : ~IsInstance(rt.opRaised[1].kind, cls)) =>
        /\ rt.pc = "raised"
        /\ rt.raised = rt.opRaised
        /\ rt.calls = rt.opRaised[1].id
        /\ Len(rt.sleeps) = rt.calls - 1

\* two retryable failures, then a ValueError on the third attempt of four
C11_Witness ==
    /\ rt.loggers_ok /\ rt.max_retries = 3
    /\ rt.pc = "raised" /\ rt.calls = 3 /\ Len(rt.sleeps) = 2
    /\ rt.raised = Some([kind |-> "ValueError", id |-> 3])

\* a ValueError on the first attempt
C11_WitnessFirst ==
    /\ rt.loggers_ok /\ rt.max_retries = 3
    /\ rt.pc = "raised" /\ rt.calls = 1 /\ rt.sleeps = <<>>
    /\ rt.raised = Some([kind |-> "ValueError", id |-> 1])

\* C12: the sleep before the k-th retry is d = min(base_delay * 2^(k-1), 60 s)
\* without jitter and lies in [d, 1.5 d] with jitter; the un-jittered delays
\* never decrease from one retry to the next.
C12_BackoffSchedule ==
    rt.loggers_ok =>
        \A k \in 1..Len(rt.sleeps) :
            LET d == IF rt.base_delay * 2^(k - 1) < 60000
                     THEN rt.base_delay * 2^(k - 1) ELSE 60000
            IN  /\ rt.sleeps[k].base = d
                /\ ~rt.use_jitter => rt.sleeps[k].delay = d
                /\ rt.use_jitter =>
                      /\ d <= rt.sleeps[k].delay
                      /\ 2 * rt.sleeps[k].delay <= 3 * d
                /\ k > 1 => rt.sleeps[k - 1].base <= rt.sleeps[k].base

\* base_delay 1 s with jitter: three sleeps, the third between 4 s and 6 s
C12_Witness ==
    /\ rt.loggers_ok /\ rt.use_jitter /\ rt.base_delay = 1000
    /\ Len(rt.sleeps) = 3
    /\ rt.sleeps[3].base = 4000
    /\ rt.sleeps[3].delay = 5000

\* base_delay 40 s without jitter: 40 s, then the cap
C12_WitnessCap ==
    /\ rt.loggers_ok /\ ~rt.use_jitter /\ rt.base_delay = 40000
    /\ Len(rt.sleeps) = 2
    /\ rt.sleeps[2].delay = 60000

RECURSIVE TotalBackoff(_)
\* the time of a sequence of sleeps
TotalBackoff(sl) ==
    IF sl = <<>> THEN 0 ELSE Head(sl).delay + TotalBackoff(Tail(sl))

\* C13: every backoff sleep of run is at most 60 s, and the sleeps of one run
\* add up to at most 60 s * max_retries, with or without jitter.
C13_SleepAtMostCap ==
    /\ \A k \in 1..Len(rt.sleeps) : rt.sleeps[k].delay <= 60000
    /\ rt.max_retries >= 0 => TotalBackoff(rt.sleeps) <= 60000 * rt.max_retries

\* a sleep of 90 s: base_delay 40 s, second retry, jitter of half the delay
C13_Witness ==
    /\ rt.loggers_ok /\ rt.use_jitter /\ rt.base_delay = 40000
    /\ Len(rt.sleeps) >= 2
    /\ rt.sleeps[2].delay = 90000

(***************************************************************************)
(* SpecGw, SpecGwConc: sessions calling one GoogleAPIsManager.  A session  *)
(* starts a call and runs it to its first suspension (GwCall); a sleeping  *)
(* call resumes when its sleep is over and runs to its next suspension or  *)
(* its end (GwWake); time passes between the calls (GwTick).  SpecGwRead   *)
(* and SpecGwWrite have one session, whose calls are therefore sequential; *)
(* SpecGwConc has two.                                                     *)
(***************************************************************************)
MaxGwCalls == 3

MaxConcCalls == 3

MaxGwTicks == 2

MaxConcTicks == 1

\* how many backend accesses fail in one behaviour
MaxFaults == 2

MaxConcFaults == 1

MaxAllCalls == 4

MaxAllTicks == 1

MaxAllFaults == 1

MaxUpdCalls == 2

MaxUpdTicks == 1

MaxUpdFaults == 4

MaxUplCalls == 2

MaxUplTicks == 1

MaxUplFaults == 4

MaxAddCalls == 2

MaxAddTicks == 1

MaxAddFaults == 4

MaxInvCalls == 3

MaxInvTicks == 2

MaxInvFaults == 1

MaxPlainCalls == 4

MaxPlainTicks == 2

MaxPlainFaults == 1

\* time.time() when the gateway is built (any value above every min_wait)
START_TIME == 1000000

OrderIds == {"o1", "o2"}

\* the ids of the orders the bot creates
NewOrderIds == {"o2"}

\* the sheet when the bot starts: order o1 is there, o2 is not
RemoteSheet ==
    [orders |-> [k \in {"o1"} |-> [Status |-> "pending", Tracking |-> "", ver |-> 0]]]

GwTickSteps == {30000, 300000}

NoObs == [s |-> 0, kind |-> "init", op |-> "none", id |-> "", hit |-> FALSE,
          lrt0 |-> <<>>, orders0 |-> <<>>, data0 |-> None, nremote |-> 0,
          read |-> "", caches0 |-> None, status |-> None, done |-> FALSE]

NoHist == [invWin |-> None, ordWin |-> [k \in OrderIds |-> None],
           ordFail |-> [k \in OrderIds |-> FALSE], imOrigin |-> None,
           addedNoGet |-> FALSE,
           fresh |-> [k \in OrderIds |-> 0], ncalls |-> 0, nfaults |-> 0,
           ncuts |-> 0]

\* the draws of one run: what the backend does and the random jitters
Oracles ==
    [init : InitOutcomes, read : env.reads, write : RemoteOutcomes,
     j : env.jitter, q : env.quarters]

\* the draws a run that starts at a phase of a call of op can use
Draws(op, phase) ==
    {o \in Oracles :
        /\ (phase \in {"op", "retry", "cells", "upload"} \/ Initialised(gw)
               \/ op = "upload_payment_screenshot") => o.init = "ok"
        /\ (phase \in {"retry", "cells"}
               \/ op \in {"add_order_to_sheet", "initialize_sheets",
                           "upload_payment_screenshot"}) =>
              o.read = "ok"
        /\ op \in {"fetch_inventory", "get_order_details", "initialize_sheets",
                   "get_inventory"} =>
              o.write = "ok"}

\* a draw a run did not use is immaterial: it is taken as its first value
Canonical(o, used) ==
    /\ "init" \notin used => o.init = "ok"
    /\ "read" \notin used => o.read = "ok"
    /\ "write" \notin used => o.write = "ok"

\* the number of backend accesses of a run that failed
Faults(o, used) ==
    Cardinality({d \in used : o[d] # "ok"})

World(m, t, o) ==
    [g |-> gw, rem |-> remote, m |-> m, hist |-> hist, im |-> im, t |-> t,
     o |-> o,
     nremote |-> 0, used |-> {}, run |-> TRUE]

Sleeping(s) == sess[s].pc # "idle"

GwStart(sessions, ops, tracking, payloads, force, reads, maxCalls, maxTicks, maxFaults) ==
    /\ CacheIdle
    /\ RetryIdle
    /\ now = START_TIME
    /\ nticks = 0
    /\ gw = GoogleAPIsManager
    /\ remote = RemoteSheet
    /\ sess = [s \in sessions |-> NoSession]
    /\ hist = NoHist
    /\ obs = NoObs
    /\ im = InventoryManager
    /\ env = [ops |-> ops, tracking |-> tracking, payloads |-> payloads,
              force |-> force,
              maxCalls |-> maxCalls,
              maxTicks |-> maxTicks, maxFaults |-> maxFaults,
              reads |-> reads, jitter |-> {10}, quarters |-> {2}]

InitGwRead ==
    GwStart({1}, {"fetch_inventory", "get_order_details"}, {FALSE}, {"bytes"}, {FALSE},
            RemoteOutcomes, MaxGwCalls, MaxGwTicks, MaxFaults)

InitGwWrite ==
    GwStart({1}, {"get_order_details", "add_order_to_sheet"}, {FALSE}, {"bytes"}, {FALSE},
            {"ok", "APIError"}, MaxGwCalls, MaxGwTicks, MaxFaults)

InitGwConc ==
    GwStart({1, 2}, {"get_order_details", "update_order_status"}, BOOLEAN, {"bytes"}, {FALSE},
            {"ok", "APIError"}, MaxConcCalls, MaxConcTicks, MaxConcFaults)

InitGwUpdate ==
    GwStart({1}, {"get_order_details", "update_order_status"}, BOOLEAN, {"bytes"}, {FALSE},
            {"ok"}, MaxUpdCalls, MaxUpdTicks, MaxUpdFaults)

InitGwUpload ==
    GwStart({1}, {"get_order_details", "upload_payment_screenshot"}, {FALSE},
            {"bytes", ""}, {FALSE}, {"ok"}, MaxUplCalls, MaxUplTicks, MaxUplFaults)

InitGwAdd ==
    GwStart({1}, {"get_order_details", "add_order_to_sheet"}, {FALSE},
            {"bytes"}, {FALSE}, {"ok"}, MaxAddCalls, MaxAddTicks, MaxAddFaults)

\* get_inventory with and without force_refresh, next to get_order_details
InitGwInv ==
    GwStart({1}, {"get_inventory", "get_order_details"}, {FALSE}, {"bytes"}, BOOLEAN, {"ok", "APIError"},
            MaxInvCalls, MaxInvTicks, MaxInvFaults)

\* get_inventory without force_refresh, next to get_order_details
InitGwInvPlain ==
    GwStart({1}, {"get_inventory", "get_order_details"}, {FALSE}, {"bytes"},
            {FALSE}, {"ok"}, MaxPlainCalls, MaxPlainTicks, MaxPlainFaults)

GatewayOperations ==
    {"initialize_sheets", "fetch_inventory", "upload_payment_screenshot",
     "add_order_to_sheet", "update_order_status", "get_order_details"}

InitGwAll ==
    GwStart({1}, GatewayOperations, {FALSE}, {"bytes"}, {FALSE}, {"ok", "APIError"},
            MaxAllCalls, MaxAllTicks, MaxAllFaults)

\* the cached data of an entry of the orders / inventory cache, before a step
CachedData(g, op, id) ==
    LET c == IF op = "fetch_inventory" THEN g.caches.inventory ELSE g.caches.orders
        k == IF op = "fetch_inventory" THEN INVENTORY_KEY ELSE OrderKey(id)
    IN  IF HasKey(c, k) THEN Some(c.cache[k].data) ELSE None

\* what a step of a call found (the throttle map and the cached data of a
\* call that hits, the orders cache of an update) and did
Observe(s, kind, w) ==
    [s |-> s, kind |-> kind, op |-> w.m.op, id |-> w.m.id,
     hit |-> kind = "call" /\ w.m.hit,
     lrt0 |-> IF kind = "call" /\ w.m.hit THEN gw.last_request_time ELSE <<>>,
     orders0 |-> IF w.m.op \in {"update_order_status", "add_order_to_sheet"}
                 THEN gw.caches.orders.cache ELSE <<>>,
     data0 |-> IF kind = "call" /\ w.m.hit
               THEN CachedData(gw, w.m.op, w.m.id) ELSE None,
     nremote |-> w.nremote,
     read |-> IF "read" \in w.used THEN w.o.read ELSE "",
     caches0 |-> IF w.m.op = "upload_payment_screenshot"
                 THEN Some(gw.caches) ELSE None,
     status |-> IF w.m.pc = "idle" /\ w.m.op = "get_order_details"
                THEN Some(get_order_status(w.m.res)) ELSE None,
     done |-> w.m.pc = "idle"]

GwCall(s) ==
    /\ ~Sleeping(s)
    /\ hist.ncalls < env.maxCalls
    /\ \E op \in env.ops, id \in OrderIds, tr \in env.tracking,
          pl \in env.payloads, fr \in env.force :
       \E o \in Draws(op, "start") :
          /\ op \in {"fetch_inventory", "initialize_sheets", "get_inventory",
                      "upload_payment_screenshot"} => id = "o1"
          /\ op # "get_inventory" => ~fr
          /\ op = "add_order_to_sheet" => id \in NewOrderIds
          /\ op # "update_order_status" => tr = (CHOOSE b \in env.tracking : TRUE)
          /\ op # "upload_payment_screenshot" =>
                pl = (CHOOSE b \in env.payloads : TRUE)
          /\ LET m0 == [NoSession EXCEPT
                          !.pc = "start", !.op = op, !.id = id, !.tracking = tr,
                          !.payload = IF op = "upload_payment_screenshot"
                                      THEN pl ELSE "",
                          !.new_status = IF op = "update_order_status"
                                         THEN "shipped" ELSE "",
                          !.afterAdd = hist.addedNoGet,
                          !.force = fr,
                          !.fb0 = (hist.invWin # None /\ hist.invWin[1].fallback),
                          !.fail0 = (op = "get_order_details" /\ hist.ordFail[id]),
                          !.overlap =
                              /\ op = "get_order_details"
                              /\ \E s2 \in DOMAIN sess \ {s} :
                                    /\ Sleeping(s2)
                                    /\ sess[s2].op = "get_order_details"
                                    /\ sess[s2].id = id,
                          !.row0 = IF op = "update_order_status"
                                      /\ id \in DOMAIN remote.orders
                                   THEN Some(remote.orders[id]) ELSE None,
                          !.ord0 = IF op # "get_order_details"
                                      \/ hist.ordWin[id] = None
                                   THEN None
                                   ELSE Some([age   |-> now - hist.ordWin[id][1].at,
                                              found |-> hist.ordWin[id][1].found]),
                          !.age0 = IF hist.invWin = None THEN None
                                   ELSE Some(now - hist.invWin[1].at)]
                 w1 == Exec(World(m0, now, o))
             IN  /\ Canonical(o, w1.used)
                 /\ hist.nfaults + Faults(o, w1.used) <= env.maxFaults
                 /\ gw' = w1.g
                 /\ remote' = w1.rem
                 /\ sess' = [sess EXCEPT ![s] = w1.m]
                 /\ hist' = [w1.hist EXCEPT !.ncalls = @ + 1,
                                            !.nfaults = @ + Faults(o, w1.used)]
                 /\ im' = w1.im
                 /\ obs' = Observe(s, "call", w1)
    /\ UNCHANGED <<now, nticks, env, ec, ret, useOrder, setInfo, scen, univ, rt>>

GwWake(s) ==
    /\ Sleeping(s)
    /\ \A s2 \in DOMAIN sess : Sleeping(s2) => sess[s].wake <= sess[s2].wake
    /\ \E o \in Draws(sess[s].op, sess[s].pc) :
          LET t1 == Max(now, sess[s].wake)
              w1 == Exec(World(sess[s], t1, o))
          IN  /\ Canonical(o, w1.used)
              /\ hist.nfaults + Faults(o, w1.used) <= env.maxFaults
              /\ now' = t1
              /\ gw' = w1.g
              /\ remote' = w1.rem
              /\ sess' = [sess EXCEPT ![s] = w1.m]
              /\ hist' = [w1.hist EXCEPT !.nfaults = @ + Faults(o, w1.used)]
              /\ im' = w1.im
              /\ obs' = Observe(s, "wake", w1)
    /\ UNCHANGED <<nticks, env, ec, ret, useOrder, setInfo, scen, univ, rt>>

GwTick ==
    /\ nticks < env.maxTicks
    /\ 0 < hist.ncalls /\ hist.ncalls < env.maxCalls
    /\ \E d \in GwTickSteps :
          /\ \A s \in DOMAIN sess : Sleeping(s) => now + d <= sess[s].wake
          /\ now' = now + d
    /\ nticks' = nticks + 1
    /\ obs' = NoObs
    /\ UNCHANGED <<gw, remote, sess, hist, im, env, ec, ret, useOrder, setInfo, scen,
                   univ, rt>>

NextGw == (\E s \in DOMAIN sess : GwCall(s)) \/ (\E s \in DOMAIN sess : GwWake(s)) \/ GwTick

SpecGwRead == InitGwRead /\ [][NextGw]_vars

SpecGwWrite == InitGwWrite /\ [][NextGw]_vars

SpecGwConc == InitGwConc /\ [][NextGw]_vars

SpecGwAll == InitGwAll /\ [][NextGw]_vars

SpecGwUpdate == InitGwUpdate /\ [][NextGw]_vars

SpecGwUpload == InitGwUpload /\ [][NextGw]_vars

SpecGwAdd == InitGwAdd /\ [][NextGw]_vars

SpecGwInv == InitGwInv /\ [][NextGw]_vars

SpecGwInvPlain == InitGwInvPlain /\ [][NextGw]_vars

(***************************************************************************)
(* Claims about the gateway's read paths, checked under SpecGwRead.        *)
(***************************************************************************)
\* session s is between calls and has made one
Done(s) == sess[s].pc = "idle" /\ sess[s].op # "none"

FetchDone(s) == Done(s) /\ sess[s].op = "fetch_inventory"

\* C5: a fetch_inventory that starts at most 300 s after the last write of
\* the inventory cache entry is served from the cache, with no remote
\* inventory read and no sheet initialisation, so that the call that wrote
\* the entry and the calls in its window issue the one inventory read of the
\* writing call in total (none when that call got no inventory sheet, its
\* initialisation having failed); a fetch_inventory that starts more than
\* 300 s after that write (or before any) misses and goes to the backend,
\* reading the inventory sheet exactly once when it gets one.
C5_OneReadPerWindow ==
    \A s \in DOMAIN sess :
        FetchDone(s) =>
            LET m == sess[s]
            IN  /\ (m.age0 # None /\ m.age0[1] <= 300000) =>
                      /\ m.hit
                      /\ m.reads = 0 /\ m.inits = 0
                      /\ hist.invWin[1].reads = IF hist.invWin[1].sheet THEN 1 ELSE 0
                /\ (m.age0 = None \/ m.age0[1] > 300000) =>
                      /\ ~m.hit
                      /\ m.reads + m.inits >= 1
                      /\ m.reads = IF m.inv_ret THEN 1 ELSE 0

\* the second call, exactly 300 s after the write of a call that read the sheet
C5_Witness ==
    \E s \in DOMAIN sess :
        /\ FetchDone(s)
        /\ sess[s].hit
        /\ sess[s].age0 = Some(300000)
        /\ sess[s].reads = 0
        /\ hist.invWin[1].reads = 1
        /\ hist.ncalls >= 2

\* the third call, after the window: a new read
C5_WitnessExpired ==
    \E s \in DOMAIN sess :
        /\ FetchDone(s)
        /\ ~sess[s].hit
        /\ sess[s].age0 # None /\ sess[s].age0[1] > 300000
        /\ sess[s].reads = 1
        /\ hist.ncalls = 3

\* C6: a fetch_inventory or get_order_details that finds a valid cache entry
\* returns the cached value in the same step, performs no backend access and
\* leaves last_request_time as it was.
C6_HitIsLocal ==
    obs.hit =>
        /\ obs.op \in {"fetch_inventory", "get_order_details"}
        /\ obs.done
        /\ obs.nremote = 0
        /\ sess[obs.s].reads = 0 /\ sess[obs.s].inits = 0
        /\ gw.last_request_time = obs.lrt0
        /\ ~sess[obs.s].res.raised
        /\ obs.data0 # None
        /\ sess[obs.s].res.val = IF obs.op = "fetch_inventory"
                                 THEN obs.data0[1][1] ELSE obs.data0[1]

\* a hit of get_order_details while the throttle map has entries
C6_Witness ==
    /\ obs.hit
    /\ obs.op = "get_order_details"
    /\ obs.lrt0 # <<>>
    /\ gw.last_request_time = obs.lrt0
    /\ sess[obs.s].res.val # None

C6_WitnessInventory ==
    /\ obs.hit
    /\ obs.op = "fetch_inventory"
    /\ obs.lrt0 # <<>>
    /\ sess[obs.s].res.val = RemoteCatalog

\* C9: fetch_inventory never raises; when the sheet initialisation or the
\* inventory read failed, with whatever error, it returns the default
\* catalog, which has products and has one under each of the four tags.
C9_FallbackCatalog ==
    \A s \in DOMAIN sess :
        FetchDone(s) =>
            /\ ~sess[s].res.raised
            /\ sess[s].failed =>
                  /\ sess[s].res.val = Catalog(DEFAULT_INVENTORY, "default")
                  /\ Len(sess[s].res.val.all) > 0
                  /\ \A tg \in TAGS : Len(sess[s].res.val.by_tag[tg]) >= 1

\* the inventory sheet is there and reading it raises an API error
C9_Witness ==
    \E s \in DOMAIN sess :
        /\ FetchDone(s)
        /\ sess[s].failed
        /\ sess[s].inv_ret /\ sess[s].reads = 1
        /\ sess[s].res.val.src = "default"

C9_WitnessInit ==
    \E s \in DOMAIN sess :
        /\ FetchDone(s)
        /\ sess[s].failed
        /\ ~sess[s].inv_ret /\ sess[s].inits = 1 /\ sess[s].reads = 0
        /\ sess[s].res.val.src = "default"

(***************************************************************************)
(* Claims about the gateway's writes: C7 under SpecGwWrite (sequential     *)
(* calls), C8 under SpecGwConc (two sessions).                             *)
(***************************************************************************)
\* what a read of the sheet finds for an order id
Lookup(order_id) ==
    IF order_id \in DOMAIN remote.orders
    THEN Some(OrderRecord(remote, order_id))
    ELSE None

\* C7: when add_order_to_sheet has returned True the orders cache holds no
\* entry, and the first get_order_details after it, for any order id, misses
\* the cache and goes to the backend; when the backend answers, it returns
\* what the sheet holds (for the id just added, the new row).
C7_AddClearsOrders ==
    \A s \in DOMAIN sess :
        LET m == sess[s]
        IN  /\ (Done(s) /\ m.op = "add_order_to_sheet" /\ ~m.res.raised
                  /\ m.res.val) =>
                  /\ Resident(gw.caches.orders) = {}
                  /\ gw.caches.orders.access_order = <<>>
            /\ (Done(s) /\ m.op = "get_order_details" /\ m.afterAdd) =>
                  /\ ~m.hit
                  /\ m.reads + m.inits >= 1
                  /\ ~m.res.raised
                  /\ ~m.failed => m.reads = 1 /\ m.res.val = Lookup(m.id)

\* the order just added is returned by the next get_order_details
C7_Witness ==
    \E s \in DOMAIN sess :
        /\ Done(s)
        /\ sess[s].op = "get_order_details"
        /\ sess[s].afterAdd
        /\ sess[s].id \in NewOrderIds
        /\ sess[s].reads = 1
        /\ sess[s].res.val # None
        /\ sess[s].res.val[1].id = sess[s].id

\* add_order_to_sheet returned True after an earlier call
C7_WitnessAdd ==
    \E s \in DOMAIN sess :
        /\ Done(s)
        /\ sess[s].op = "add_order_to_sheet"
        /\ sess[s].res.val
        /\ hist.ncalls >= 2
        /\ gw.caches.orders.misses >= 1

\* C8: in every interleaving of update_order_status with get_order_details
\* calls of another session: when update_order_status(id) returns success
\* the orders cache has no entry for id; from then on no get_order_details(id)
\* returns, from the cache or from the sheet, a row older than the row as
\* that update left it, nor one with the old status; and no step of an
\* update_order_status(id) changes the cache entry of another order id.
C8_NoStaleAfterUpdate ==
    /\ (obs.op = "update_order_status" /\ obs.done /\ sess[obs.s].res.val) =>
          ~HasKey(gw.caches.orders, OrderKey(obs.id))
    /\ (obs.op = "get_order_details" /\ obs.done /\ sess[obs.s].res.val # None) =>
          /\ sess[obs.s].res.val[1].ver >= hist.fresh[obs.id]
          /\ hist.fresh[obs.id] > 0 => sess[obs.s].res.val[1].Status = "shipped"
    /\ \A id \in OrderIds :
          LET k == OrderKey(id)
          IN  (HasKey(gw.caches.orders, k) /\ gw.caches.orders.cache[k].data # None) =>
                  gw.caches.orders.cache[k].data[1].ver >= hist.fresh[id]
    /\ obs.op = "update_order_status" =>
          \A id \in OrderIds \ {obs.id} :
              LET k == OrderKey(id)
              IN  /\ HasKey(gw.caches.orders, k) <=> k \in DOMAIN obs.orders0
                  /\ HasKey(gw.caches.orders, k) =>
                        gw.caches.orders.cache[k] = obs.orders0[k]

\* get_order_details(id) returns the updated row after update_order_status(id)
\* returned success, the other session having served the old row before
C8_Witness ==
    /\ obs.op = "get_order_details"
    /\ obs.done
    /\ hist.fresh[obs.id] > 0
    /\ sess[obs.s].res.val # None
    /\ sess[obs.s].res.val[1].Status = "shipped"
    /\ gw.caches.orders.hits >= 1

\* get_order_details(id) hits the cache while update_order_status(id) sleeps
\* between its cell updates
C8_WitnessOverlap ==
    \E s \in DOMAIN sess :
        /\ Sleeping(s)
        /\ sess[s].op = "update_order_status"
        /\ sess[s].pc = "cells"
        /\ obs.op = "get_order_details" /\ obs.id = sess[s].id /\ obs.s # s
        /\ obs.done

\* the entry of another order is in the cache when the update returns
C8_WitnessOther ==
    /\ obs.op = "update_order_status" /\ obs.done /\ sess[obs.s].res.val
    /\ \E id \in OrderIds \ {obs.id} : HasKey(gw.caches.orders, OrderKey(id))

(***************************************************************************)
(* _rate_limit_request called on its own: sessions call it with a class    *)
(* name, sleep in it when the class was used less than its minimum wait    *)
(* ago, and return having stamped the class.  The clock is time.time():    *)
(* it advances between the steps or stands still (two reads of a coarse    *)
(* clock are equal).                                                       *)
(***************************************************************************)
MaxRlCalls == 3

MaxRlTicks == 2

MaxRlConcCalls == 3

MaxRlConcTicks == 1

MaxMapCalls == 22

MaxMapTicks == 1

MaxRecalls == 1

\* the classes of min_wait_times and one name that is not among them
ThrottleClasses ==
    {"sheets", "sheets_read", "sheets_write", "drive", "inventory", "other"}

\* further names that are not among min_wait_times, in the order of first use
ClassNames ==
    <<"c01", "c02", "c03", "c04", "c05", "c06", "c07", "c08", "c09", "c10",
      "c11", "c12", "c13", "c14", "c15", "c16", "c17", "c18", "c19", "c20",
      "c21", "c22", "c23", "c24">>

RlTickSteps == {300, 500, 1200}

NoRlCall == [pc |-> "idle", api |-> "", t0 |-> 0, wake |-> 0, overlap |-> FALSE]

NoRlObs == [kind |-> "none"]

\* history: the calls made, the further names in use, the calls with a class
\* already in use, the housekeeping cuts, and per class its last return
NoRlHist(classes) ==
    [ncalls |-> 0, nfresh |-> 0, nrecalls |-> 0, ncuts |-> 0,
     returned |-> [c \in classes |-> None]]

RlSleeping(s) == sess[s].pc = "sleep"

RlStart(sessions, classes, names, jitter, steps, maxCalls, maxTicks, maxRecalls) ==
    /\ CacheIdle
    /\ RetryIdle
    /\ remote = None
    /\ now = START_TIME
    /\ nticks = 0
    /\ gw = GoogleAPIsManager
    /\ sess = [s \in sessions |-> NoRlCall]
    /\ hist = NoRlHist(classes \cup {ClassNames[i] : i \in 1..Min(names, Len(ClassNames))})
    /\ obs = NoRlObs
    /\ im = None
    /\ env = [classes |-> classes, names |-> names, jitter |-> jitter,
              steps |-> steps, maxCalls |-> maxCalls, maxTicks |-> maxTicks,
              maxRecalls |-> maxRecalls]

InitThrottle ==
    RlStart({1}, ThrottleClasses, 0, ThrottleJitter, RlTickSteps, MaxRlCalls,
            MaxRlTicks, MaxRlCalls)

InitThrottleConc ==
    RlStart({1, 2}, {"sheets_read", "sheets_write"}, 0, ThrottleJitter,
            RlTickSteps, MaxRlConcCalls, MaxRlConcTicks, MaxRlConcCalls)

InitThrottleMap ==
    RlStart({1}, {"sheets_write"}, MaxMapCalls - 1, {0}, {1000}, MaxMapCalls,
            MaxMapTicks, MaxRecalls)

\* the class names a call may pass: the classes of the run, the first of
\* the further names once it is in use, and the next unused name
RlCallable ==
    env.classes
        \cup {ClassNames[i] : i \in (1..hist.nfresh) \cap {1}}
        \cup (IF hist.nfresh < env.names /\ hist.nfresh < Len(ClassNames)
              THEN {ClassNames[hist.nfresh + 1]} ELSE {})

\* lines 739-750 at time t, and the return of the call of session s
RlReturn(s, api, t0, t, slept, overlap, h) ==
    LET put == LrtPut(gw.last_request_time, api, t)
        cut == Len(put) > RL_MAX_ENTRIES
    IN  /\ gw' = [gw EXCEPT !.last_request_time = rate_limit_stamp(@, api, t)]
        /\ hist' = [h EXCEPT
                      !.returned[api] = Some([at |-> t, s |-> s, overlap |-> overlap]),
                      !.ncuts = IF cut THEN @ + 1 ELSE @]
        /\ obs' = [kind |-> "return", s |-> s, api |-> api, t0 |-> t0, at |-> t,
                   slept |-> slept, overlap |-> overlap,
                   recorded |-> LrtHas(gw.last_request_time, api),
                   last |-> LrtGet(gw.last_request_time, api),
                   prev |-> hist.returned[api],
                   put |-> IF cut THEN put ELSE <<>>, cut |-> cut]

\* lines 709-737: the call of session s, up to its sleep or, when it does
\* not sleep, to its return
RlCall(s) ==
    /\ sess[s].pc = "idle"
    /\ hist.ncalls < env.maxCalls
    /\ \E api \in RlCallable, j \in env.jitter :
          LET d     == rate_limit_wait(gw.last_request_time, api, now, j)
              known == LrtHas(gw.last_request_time, api)
                          \/ \E s2 \in DOMAIN sess : sess[s2].api = api
              fresh == api \notin env.classes
                          /\ api \notin {ClassNames[i] : i \in 1..hist.nfresh}
              with  == {s2 \in DOMAIN sess : RlSleeping(s2) /\ sess[s2].api = api}
              h1    == [hist EXCEPT !.ncalls = @ + 1,
                                    !.nfresh = IF fresh THEN @ + 1 ELSE @,
                                    !.nrecalls = IF known THEN @ + 1 ELSE @]
          IN  /\ known => hist.nrecalls < env.maxRecalls
              /\ IF d = 0
                 THEN /\ j = CHOOSE j0 \in env.jitter : TRUE
                      /\ RlReturn(s, api, now, now, FALSE, with # {}, h1)
                      /\ sess' = [s2 \in DOMAIN sess |->
                                    IF s2 = s
                                    THEN NoRlCall
                                    ELSE IF s2 \in with
                                         THEN [sess[s2] EXCEPT !.overlap = TRUE]
                                         ELSE sess[s2]]
                 ELSE /\ sess' = [s2 \in DOMAIN sess |->
                                    IF s2 = s
                                    THEN [pc |-> "sleep", api |-> api, t0 |-> now,
                                          wake |-> now + d, overlap |-> with # {}]
                                    ELSE IF s2 \in with
                                         THEN [sess[s2] EXCEPT !.overlap = TRUE]
                                         ELSE sess[s2]]
                      /\ hist' = h1
                      /\ obs' = [kind |-> "sleep", s |-> s, api |-> api, t0 |-> now,
                                 d |-> d]
                      /\ gw' = gw
    /\ UNCHANGED <<now, nticks, remote, im, env, ec, ret, useOrder, setInfo, scen,
                   univ, rt>>

\* asyncio.sleep is over for the sleeper that is due first
RlWake(s) ==
    /\ RlSleeping(s)
    /\ \A s2 \in DOMAIN sess : RlSleeping(s2) => sess[s].wake <= sess[s2].wake
    /\ now' = Max(now, sess[s].wake)
    /\ RlReturn(s, sess[s].api, sess[s].t0, Max(now, sess[s].wake), TRUE,
                sess[s].overlap, hist)
    /\ sess' = [sess EXCEPT ![s] = NoRlCall]
    /\ UNCHANGED <<nticks, remote, im, env, ec, ret, useOrder, setInfo, scen, univ, rt>>

RlTick ==
    /\ nticks < env.maxTicks
    /\ 0 < hist.ncalls /\ hist.ncalls < env.maxCalls
    /\ \E d \in env.steps :
          /\ \A s \in DOMAIN sess : RlSleeping(s) => now + d <= sess[s].wake
          /\ now' = now + d
    /\ nticks' = nticks + 1
    /\ obs' = NoRlObs
    /\ UNCHANGED <<gw, remote, sess, hist, im, env, ec, ret, useOrder, setInfo, scen,
                   univ, rt>>

NextThrottle ==
    (\E s \in DOMAIN sess : RlCall(s)) \/ (\E s \in DOMAIN sess : RlWake(s)) \/ RlTick

SpecThrottle == InitThrottle /\ [][NextThrottle]_vars

SpecThrottleConc == InitThrottleConc /\ [][NextThrottle]_vars

SpecThrottleMap == InitThrottleMap /\ [][NextThrottle]_vars

(***************************************************************************)
(* Claims about _rate_limit_request, checked under SpecThrottle (one       *)
(* session, so that its calls follow one another without overlap).         *)
(***************************************************************************)
\* a call of _rate_limit_request has just returned, and an earlier call
\* with the same class had returned before it
Successive == obs.kind = "return" /\ obs.prev # None

\* C14: of two successive calls of _rate_limit_request with the same class,
\* the second stamps the class at least the class's minimum interval (in ms:
\* sheets 1000, sheets_read 500, sheets_write 1200, drive 1500, inventory
\* 800, any other class 1000) after the stamp of the first, whatever the
\* jitter drawn.
C14_MinInterval ==
    Successive =>
        obs.at - obs.prev[1].at >=
            (CASE obs.api = "sheets"       -> 1000
               [] obs.api = "sheets_read"  -> 500
               [] obs.api = "sheets_write" -> 1200
               [] obs.api = "drive"        -> 1500
               [] obs.api = "inventory"    -> 800
               [] OTHER                    -> 1000)

\* a second sheets_write call that started at the first one's stamp and drew
\* the jitter -10 % slept 0.9 * 1.3 s and stamped 1.17 s after the first
C14_Witness ==
    /\ Successive /\ obs.api = "sheets_write" /\ obs.slept
    /\ obs.t0 = obs.prev[1].at
    /\ obs.at - obs.prev[1].at = 1170

\* C15: of two successive calls of _rate_limit_request('sheets_write'), the
\* second returns no earlier than 0.9 * 1.2 s after the first returned,
\* whatever the jitter drawn and whenever the second call starts.
C15_WriteSpacing ==
    (Successive /\ obs.api = "sheets_write") =>
        10 * (obs.at - obs.prev[1].at) >= 9 * 1200

\* a second call that started 0.3 s after the first returned and drew -10 %
C15_Witness ==
    /\ Successive /\ obs.api = "sheets_write" /\ obs.slept
    /\ obs.t0 - obs.prev[1].at = 300
    /\ obs.at - obs.prev[1].at = 1200

\* a second call that started 1.2 s after the first returned: no sleep
C15_WitnessLate ==
    /\ Successive /\ obs.api = "sheets_write" /\ ~obs.slept
    /\ obs.at - obs.prev[1].at = 1200

(***************************************************************************)
(* Claims about concurrent callers of _rate_limit_request, checked under   *)
(* SpecThrottleConc (two sessions).                                        *)
(***************************************************************************)
\* a call has just returned that was in _rate_limit_request together with a
\* sleeping call of the other session for the same class, and the return
\* before it for that class was that of the other session's call
Overlapped ==
    /\ obs.kind = "return" /\ obs.overlap
    /\ obs.prev # None /\ obs.prev[1].s # obs.s /\ obs.prev[1].overlap

\* C16: when a session calls _rate_limit_request with a class while another
\* session is sleeping in it for the same class, the two calls return one
\* after the other, at least 0.9 times the class's minimum interval apart
\* (never at the same time).
C16_Serialized ==
    Overlapped =>
        /\ obs.at > obs.prev[1].at
        /\ 10 * (obs.at - obs.prev[1].at) >=
              9 * (IF obs.api = "sheets_write" THEN 1200 ELSE 500)

\* both sessions called sheets_write at the same clock reading, drew the
\* same jitter and were released at the same time
C16_Witness ==
    /\ Overlapped /\ obs.api = "sheets_write" /\ obs.slept
    /\ obs.at = obs.prev[1].at

(***************************************************************************)
(* More claims checked under SpecThrottle.                                 *)
(***************************************************************************)
\* C17: a call of _rate_limit_request for a class that has no recorded
\* earlier call, or whose recorded stamp is at least the class's minimum
\* interval old when the call starts, returns without sleeping (at the clock
\* reading it started at); and every call, slept or not, sets the class's
\* entry of last_request_time to the time of its return.
C17_NoWaitAndStamp ==
    obs.kind = "return" =>
        LET interval == CASE obs.api = "sheets"       -> 1000
                          [] obs.api = "sheets_read"  -> 500
                          [] obs.api = "sheets_write" -> 1200
                          [] obs.api = "drive"        -> 1500
                          [] obs.api = "inventory"    -> 800
                          [] OTHER                    -> 1000
        IN  /\ (~obs.recorded \/ obs.t0 - obs.last >= interval) =>
                  (~obs.slept /\ obs.at = obs.t0)
            /\ obs.at = now
            /\ \E i \in 1..Len(gw.last_request_time) :
                  /\ gw.last_request_time[i] = [api |-> obs.api, t |-> obs.at]
                  /\ \A k \in 1..Len(gw.last_request_time) :
                        gw.last_request_time[k].api = obs.api => k = i

\* a call exactly the minimum interval after the recorded stamp: no sleep
C17_Witness ==
    /\ obs.kind = "return" /\ obs.api = "sheets_read" /\ obs.recorded
    /\ obs.t0 - obs.last = 500
    /\ ~obs.slept /\ obs.at = obs.t0
    /\ LrtGet(gw.last_request_time, "sheets_read") = obs.at

\* the first call for a class
C17_WitnessFirst ==
    /\ obs.kind = "return" /\ obs.api = "drive" /\ ~obs.recorded /\ ~obs.slept
    /\ LrtGet(gw.last_request_time, "drive") = now

\* a call that slept stamps the time it woke at
C17_WitnessSlept ==
    /\ obs.kind = "return" /\ obs.api = "drive" /\ obs.slept
    /\ obs.at > obs.t0
    /\ LrtGet(gw.last_request_time, "drive") = obs.at

(***************************************************************************)
(* Claims about the housekeeping of last_request_time, checked under       *)
(* SpecThrottleMap (one session, up to MaxMapCalls - 1 class names beside  *)
(* sheets_write).                                                          *)
(***************************************************************************)
\* the entries of a throttle map, as a set
Entries(lrt) == {lrt[i] : i \in 1..Len(lrt)}

\* C18: after every return of _rate_limit_request the map last_request_time
\* has at most 20 entries; a call that pushes it above 20 leaves exactly 10
\* of its entries, none of them stamped earlier than an entry that was
\* dropped, and the class of that call is among the 10.
C18_BoundedMap ==
    obs.kind = "return" =>
        /\ Len(gw.last_request_time) <= 20
        /\ obs.cut =>
              /\ Len(gw.last_request_time) = 10
              /\ Cardinality(Entries(gw.last_request_time)) = 10
              /\ Entries(gw.last_request_time) \subseteq Entries(obs.put)
              /\ \A e \in Entries(gw.last_request_time) :
                    \A f \in Entries(obs.put) \ Entries(gw.last_request_time) :
                        e.t >= f.t
              /\ \E e \in Entries(gw.last_request_time) : e.api = obs.api

\* the 21st class is stamped at the clock reading of eleven entries before
\* it: the cut keeps ten of those and drops the class of the call
C18_Witness ==
    /\ obs.kind = "return" /\ obs.cut
    /\ Len(gw.last_request_time) = 10
    /\ \A e \in Entries(gw.last_request_time) : e.api # obs.api /\ e.t = obs.at

\* the 21st class is stamped later than every other entry: it is kept
C18_WitnessKept ==
    /\ obs.kind = "return" /\ obs.cut
    /\ \A e \in Entries(obs.put) : e.api # obs.api => e.t < obs.at
    /\ \E e \in Entries(gw.last_request_time) : e.api = obs.api

(***************************************************************************)
(* Claims about the gateway's throttle keys, checked under SpecGwAll (one  *)
(* session calling any of the six gateway operations).                     *)
(***************************************************************************)
\* C19: whatever gateway operations are called and with whatever order ids,
\* the keys of last_request_time stay within sheets, sheets_read,
\* sheets_write, drive and inventory (no key is or holds an order id), so
\* the map never exceeds five entries and the housekeeping cut never runs.
C19_FixedKeys ==
    /\ \A e \in Entries(gw.last_request_time) :
          e.api \in {"sheets", "sheets_read", "sheets_write", "drive", "inventory"}
    /\ Len(gw.last_request_time) <= 5
    /\ hist.ncuts = 0

\* all five classes have been used, the last by an update of order o2
C19_Witness ==
    /\ {e.api : e \in Entries(gw.last_request_time)} =
          {"sheets", "sheets_read", "sheets_write", "drive", "inventory"}
    /\ obs.op = "update_order_status" /\ obs.id = "o2" /\ obs.done

(***************************************************************************)
(* A claim about the read paths and the retrier, checked under SpecGwRead. *)
(***************************************************************************)
\* C20: when the remote read of a fetch_inventory or get_order_details call
\* that missed the cache fails with a connection error, the read is retried,
\* and the call returns (the default catalog, or None) only after 1 + 3
\* reads, the retry bound of the gateway's retry handlers.
C20_ReadsRetried ==
    (/\ obs.done /\ obs.op \in {"fetch_inventory", "get_order_details"}
     /\ obs.read = "ConnectionError") =>
        sess[obs.s].reads = 1 + 3

\* fetch_inventory returns the default catalog after one failed read
C20_Witness ==
    /\ obs.done /\ obs.op = "fetch_inventory" /\ obs.read = "ConnectionError"
    /\ sess[obs.s].reads = 1 /\ obs.nremote = 1
    /\ ~sess[obs.s].res.raised
    /\ sess[obs.s].res.val = _create_default_inventory

\* get_order_details returns None after one failed read
C20_WitnessOrder ==
    /\ obs.done /\ obs.op = "get_order_details" /\ obs.read = "ConnectionError"
    /\ sess[obs.s].reads = 1
    /\ ~sess[obs.s].res.raised /\ sess[obs.s].res.val = None

(***************************************************************************)
(* Claims about the cached answers of get_order_details, checked under     *)
(* SpecGwRead.                                                             *)
(***************************************************************************)
OrderDone(s) == Done(s) /\ sess[s].op = "get_order_details"

\* C21: once a get_order_details(id) has read the sheet and found no order
\* id, every get_order_details(id) that starts at most 30 s after that read
\* (the orders cache not having been cleared) returns None as a cache hit,
\* with no remote read and no sheet initialisation; the first one that
\* starts more than 30 s after it misses and goes to the backend, reading
\* the sheet once when it gets the orders sheet.
C21_NegativeCaching ==
    \A s \in DOMAIN sess :
        (OrderDone(s) /\ sess[s].ord0 # None /\ ~sess[s].ord0[1].found) =>
            LET m == sess[s]
            IN  /\ m.ord0[1].age <= 30000 =>
                      /\ m.hit
                      /\ ~m.res.raised /\ m.res.val = None
                      /\ m.reads = 0 /\ m.inits = 0
                /\ m.ord0[1].age > 30000 =>
                      /\ ~m.hit
                      /\ m.reads + m.inits >= 1
                      /\ m.reads = IF m.sheet_ret THEN 1 ELSE 0

\* a call exactly 30 s after the read that found nothing: a hit, None
C21_Witness ==
    \E s \in DOMAIN sess :
        /\ OrderDone(s) /\ sess[s].id = "o2"
        /\ sess[s].ord0 = Some([age |-> 30000, found |-> FALSE])
        /\ sess[s].hit /\ sess[s].res.val = None /\ sess[s].reads = 0
        /\ hist.ncalls >= 2

\* a call 60 s after it: a new read
C21_WitnessExpired ==
    \E s \in DOMAIN sess :
        /\ OrderDone(s) /\ sess[s].id = "o2"
        /\ sess[s].ord0 # None /\ ~sess[s].ord0[1].found
        /\ sess[s].ord0[1].age = 60000
        /\ ~sess[s].hit /\ sess[s].reads = 1

\* C23: get_order_details never returns, as a cache hit, a found order
\* record that was written to the cache more than 30 s before the call.
C23_MaxAgeThirty ==
    \A s \in DOMAIN sess :
        (OrderDone(s) /\ sess[s].hit /\ sess[s].ord0 # None
            /\ sess[s].ord0[1].found) =>
                sess[s].ord0[1].age <= 30000

\* the record of o1, cached 60 s earlier, is returned as a hit
C23_Witness ==
    \E s \in DOMAIN sess :
        /\ OrderDone(s) /\ sess[s].id = "o1" /\ sess[s].hit
        /\ sess[s].ord0 = Some([age |-> 60000, found |-> TRUE])
        /\ sess[s].reads = 0
        /\ sess[s].res.val # None

\* what the two methods hand back when the read succeeded and the order
\* does not exist
NotFoundOutcome == [raised |-> FALSE, val |-> None]

NotFoundStatus ==
    [raised |-> FALSE,
     val |-> <<None, None, "Order not found. Please check your Order ID.">>]

\* C22: when the remote read inside get_order_details fails, what
\* get_order_details returns, and what OrderManager.get_order_status returns
\* for it, differ from what they return when the read succeeded and the
\* order does not exist.
C22_FailureVisible ==
    (/\ obs.done /\ obs.op = "get_order_details"
     /\ obs.read \notin {"", "ok"}) =>
        /\ sess[obs.s].res # NotFoundOutcome
        /\ obs.status # Some(NotFoundStatus)

\* the read of o1, an order of the sheet, failed: "Order not found"
C22_Witness ==
    /\ obs.done /\ obs.op = "get_order_details" /\ obs.id = "o1"
    /\ obs.read = "ConnectionError"
    /\ sess[obs.s].res = NotFoundOutcome
    /\ obs.status = Some(NotFoundStatus)

\* the read succeeded and o2 is not in the sheet: the same two outcomes
C22_WitnessNotFound ==
    /\ obs.done /\ obs.op = "get_order_details" /\ obs.id = "o2"
    /\ obs.read = "ok" /\ ~obs.hit
    /\ sess[obs.s].res = NotFoundOutcome
    /\ obs.status = Some(NotFoundStatus)

(***************************************************************************)
(* Claims about failed writes, checked under SpecGwUpdate (one session,    *)
(* update_order_status with and without a tracking link, up to             *)
(* MaxUpdFaults failing backend writes).                                   *)
(***************************************************************************)
UpdateDone(s) == Done(s) /\ sess[s].op = "update_order_status"

\* C24: whenever update_order_status returns failure, the row of the order
\* in the remote sheet is as it was when the call started: the call has
\* modified neither its Status cell nor its Tracking Link cell (also when a
\* retryable error between the two cell updates exhausts the retries).
C24_NoPartialWrite ==
    \A s \in DOMAIN sess :
        (UpdateDone(s) /\ ~sess[s].res.raised /\ sess[s].res.val = FALSE
            /\ sess[s].row0 # None) =>
                /\ remote.orders[sess[s].id].Status = sess[s].row0[1].Status
                /\ remote.orders[sess[s].id].Tracking = sess[s].row0[1].Tracking

\* the update of the Tracking Link cell failed with a connection error four
\* times: the call returns failure, and the Status cell is changed
C24_Witness ==
    \E s \in DOMAIN sess :
        /\ UpdateDone(s) /\ sess[s].tracking /\ sess[s].res.val = FALSE
        /\ hist.nfaults = 4
        /\ sess[s].row0 # None /\ sess[s].row0[1].Status = "pending"
        /\ remote.orders[sess[s].id].Status = "shipped"
        /\ remote.orders[sess[s].id].Tracking = ""

(***************************************************************************)
(* A claim about concurrent misses, checked under SpecGwConc.              *)
(***************************************************************************)
\* C25: there is no single flight.  A get_order_details(id) that starts
\* while another session is suspended inside its own get_order_details(id),
\* and before any result for id is cached, misses the cache like that one
\* and goes to the backend on its own account: it performs its own remote
\* read whenever it gets the orders sheet.
C25_NoSingleFlight ==
    \A s \in DOMAIN sess :
        (OrderDone(s) /\ sess[s].overlap /\ sess[s].ord0 = None) =>
            /\ ~sess[s].hit
            /\ sess[s].reads + sess[s].inits >= 1
            /\ sess[s].reads = IF sess[s].sheet_ret THEN 1 ELSE 0

\* both sessions have called get_order_details("o1"), the second while the
\* first was suspended; both missed and each read the sheet
C25_Witness ==
    /\ OrderDone(1) /\ OrderDone(2)
    /\ sess[1].id = "o1" /\ sess[2].id = "o1"
    /\ ~sess[1].hit /\ ~sess[2].hit
    /\ sess[1].ord0 = None /\ sess[2].ord0 = None
    /\ sess[1].overlap \/ sess[2].overlap
    /\ sess[1].reads = 1 /\ sess[2].reads = 1

(***************************************************************************)
(* A claim about upload_payment_screenshot, checked under SpecGwUpload     *)
(* (one session, empty and non-empty payloads, up to MaxUplFaults failing  *)
(* uploads).                                                               *)
(***************************************************************************)
UploadDone(s) == Done(s) /\ sess[s].op = "upload_payment_screenshot"

\* C26: upload_payment_screenshot returns a link only after an upload that
\* succeeded; an upload that fails with a connection error is tried again,
\* at most 3 times, and the error of the 4th failure is raised to the
\* caller; any other error is raised to the caller by the attempt that hit
\* it, with no retry; an empty payload is raised as a ValueError with no
\* upload attempted; and no step of the call reads or writes a cache.
C26_UploadOutcome ==
    /\ \A s \in DOMAIN sess :
          UploadDone(s) =>
              LET m == sess[s]
                  n == Len(m.tries)
              IN  /\ n <= 1 + 3
                  /\ \A k \in 1..(n - 1) : m.tries[k] = "ConnectionError"
                  /\ m.payload = "" => (m.res.raised /\ m.res.val = "ValueError" /\ n = 0)
                  /\ m.payload # "" => n >= 1
                  /\ ~m.res.raised =>
                        (n >= 1 /\ m.tries[n] = "ok" /\ m.res.val = "webViewLink")
                  /\ (n >= 1 /\ m.tries[n] = "ok") => ~m.res.raised
                  /\ (n >= 1 /\ m.tries[n] = "ConnectionError") =>
                        (n = 1 + 3 /\ m.res.raised /\ m.res.val = "ConnectionError")
                  /\ (n >= 1 /\ m.tries[n] \notin {"ok", "ConnectionError"}) =>
                        (m.res.raised /\ m.res.val = m.tries[n])
    /\ obs.op = "upload_payment_screenshot" => obs.caches0 = Some(gw.caches)

\* four uploads failed with a connection error: raised to the caller
C26_Witness ==
    \E s \in DOMAIN sess :
        /\ UploadDone(s)
        /\ sess[s].tries = <<"ConnectionError", "ConnectionError",
                             "ConnectionError", "ConnectionError">>
        /\ sess[s].res = [raised |-> TRUE, val |-> "ConnectionError"]

\* an empty payload: ValueError, no upload
C26_WitnessEmpty ==
    \E s \in DOMAIN sess :
        /\ UploadDone(s) /\ sess[s].payload = "" /\ sess[s].tries = <<>>
        /\ sess[s].res = [raised |-> TRUE, val |-> "ValueError"]
        /\ obs.nremote = 0

\* a retried upload that succeeded, with an order in the cache
C26_WitnessRetried ==
    \E s \in DOMAIN sess :
        /\ UploadDone(s) /\ sess[s].tries = <<"ConnectionError", "ok">>
        /\ sess[s].res = [raised |-> FALSE, val |-> "webViewLink"]
        /\ HasKey(gw.caches.orders, OrderKey("o1"))

\* an API error of the upload: RuntimeError, no retry
C26_WitnessFatal ==
    \E s \in DOMAIN sess :
        /\ UploadDone(s) /\ sess[s].tries = <<"RuntimeError">>
        /\ sess[s].res = [raised |-> TRUE, val |-> "RuntimeError"]

(***************************************************************************)
(* A claim about add_order_to_sheet, checked under SpecGwAdd (one session, *)
(* up to MaxAddFaults failing backend accesses).                           *)
(***************************************************************************)
AddDone(s) == Done(s) /\ sess[s].op = "add_order_to_sheet"

\* C27: add_order_to_sheet does not raise on a backend failure; it returns
\* True only when its last insert / append completed without error; when
\* the sheet is not initialised, the insert hits a non-retryable error or
\* its retries are exhausted, it returns False; and a call that does not
\* return True leaves the entries of the orders cache as they were.
C27_AddOutcome ==
    /\ \A s \in DOMAIN sess :
          AddDone(s) =>
              LET m == sess[s]
                  n == Len(m.tries)
              IN  /\ ~m.res.raised
                  /\ m.res.val \in BOOLEAN
                  /\ m.res.val = (n >= 1 /\ m.tries[n] = "ok")
                  /\ ~m.sheet_ret => (n = 0 /\ m.res.val = FALSE)
                  /\ n <= 1 + 3
                  /\ \A k \in 1..(n - 1) : m.tries[k] = "ConnectionError"
                  /\ (n >= 1 /\ m.tries[n] = "ConnectionError") => n = 1 + 3
    /\ (obs.op = "add_order_to_sheet"
          /\ ~(obs.done /\ sess[obs.s].res.val = TRUE)) =>
              gw.caches.orders.cache = obs.orders0

\* the retries are exhausted with an order in the cache: False, cache kept
C27_Witness ==
    \E s \in DOMAIN sess :
        /\ AddDone(s) /\ sess[s].res.val = FALSE
        /\ sess[s].tries = <<"ConnectionError", "ConnectionError",
                             "ConnectionError", "ConnectionError">>
        /\ HasKey(gw.caches.orders, OrderKey("o1"))
        /\ obs.orders0 = gw.caches.orders.cache

\* the sheet could not be initialised
C27_WitnessNoSheet ==
    \E s \in DOMAIN sess :
        AddDone(s) /\ ~sess[s].sheet_ret /\ sess[s].res.val = FALSE

\* a non-retryable error of the insert
C27_WitnessFatal ==
    \E s \in DOMAIN sess :
        AddDone(s) /\ sess[s].tries = <<"APIError">> /\ sess[s].res.val = FALSE

\* a retried insert that succeeded
C27_WitnessAdded ==
    \E s \in DOMAIN sess :
        /\ AddDone(s) /\ sess[s].tries = <<"ConnectionError", "ok">>
        /\ sess[s].res.val = TRUE
        /\ sess[s].id \in DOMAIN remote.orders

(***************************************************************************)
(* Claims about the single operations of EnhancedCache, checked under      *)
(* SpecCache against the object before the call (ret.pre).                 *)
(***************************************************************************)
\* the sequence q without key k
Without(q, k) == SelectSeq(q, LAMBDA x : x # k)

\* the entries of d other than that of key k
Others(d, k) == [x \in (DOMAIN d) \ {k} |-> d[x]]

\* C28: a get that finds no entry or an expired one returns (False, None),
\* adds one to misses, and removes an expired entry from the entries and
\* from the recency sequence; a get that finds an unexpired entry returns
\* (True, value), adds one to hits, moves the key to the most recently used
\* end and changes no entry.
C28_GetEffect ==
    ret.op = "get" =>
        LET p == ret.pre[1]
            k == ret.key
        IN  IF k \notin DOMAIN p.cache
               \/ now - p.cache[k].timestamp > p.cache[k].ttl
            THEN /\ ~ret.hit /\ ret.data = None
                 /\ ec.misses = p.misses + 1 /\ ec.hits = p.hits
                 /\ ec.cache = Others(p.cache, k)
                 /\ ec.access_order = Without(p.access_order, k)
            ELSE /\ ret.hit /\ ret.data = p.cache[k].data
                 /\ ec.hits = p.hits + 1 /\ ec.misses = p.misses
                 /\ ec.cache = p.cache
                 /\ ec.access_order = Append(Without(p.access_order, k), k)

\* a hit that moved the key from the front to the end of the sequence
C28_Witness ==
    /\ ret.op = "get" /\ ret.hit
    /\ Len(ec.access_order) = 2
    /\ ret.pre[1].access_order[1] = ret.key
    /\ ec.access_order[2] = ret.key

\* a get that removed an expired entry and left another one
C28_WitnessExpired ==
    /\ ret.op = "get" /\ ~ret.hit
    /\ ret.key \in DOMAIN ret.pre[1].cache
    /\ ret.key \notin DOMAIN ec.cache
    /\ ec.cache # <<>>

\* a get of a key with no entry
C28_WitnessAbsent ==
    /\ ret.op = "get" /\ ~ret.hit
    /\ ret.key \notin DOMAIN ret.pre[1].cache
    /\ ec.misses = ret.pre[1].misses + 1

\* C29: set stores the entry with the ttl argument whenever one is given,
\* 0 included, and with default_ttl only when none is given; it returns the
\* stored value.
C29_SetStoresTtl ==
    ret.op = "set" =>
        LET e == ec.cache[ret.key]
        IN  /\ e.ttl = IF ret.arg # None THEN ret.arg[1]
                       ELSE ret.pre[1].default_ttl
            /\ ret.out = e.data

\* set with ttl = 0 stored the default
C29_Witness ==
    /\ ret.op = "set" /\ ret.arg = Some(0)
    /\ ec.cache[ret.key].ttl = ret.pre[1].default_ttl
    /\ ret.pre[1].default_ttl # 0

\* C30: clear(k) with a key argument, the empty string included, removes at
\* most the entry of k and its recency record, and leaves the other
\* entries, the order of the other keys and the counters as they were;
\* clear() without a key empties the cache.
C30_ClearFrame ==
    ret.op = "clear" =>
        LET p == ret.pre[1]
        IN  /\ ec.hits = p.hits /\ ec.misses = p.misses
            /\ IF ret.arg # None
               THEN /\ ec.cache = Others(p.cache, ret.arg[1])
                    /\ ec.access_order = Without(p.access_order, ret.arg[1])
               ELSE /\ ec.cache = <<>>
                    /\ ec.access_order = <<>>

\* clear("") emptied a cache that held entries
C30_Witness ==
    /\ ret.op = "clear" /\ ret.arg = Some("")
    /\ ret.pre[1].cache # <<>>
    /\ ec.cache = <<>> /\ ec.access_order = <<>>

(***************************************************************************)
(* Claims about the counters of EnhancedCache, checked under               *)
(* SpecCacheStats (up to MaxStatGets lookups).                             *)
(***************************************************************************)
\* C31: hits and misses never decrease under a get, set or clear (clear
\* does not reset them); hits + misses is the number of get calls made and
\* equals total_requests; hit_ratio is hits / (hits + misses), and 0 when
\* no get was made; 3 hits and 1 miss give 3/4.
C31_Counters ==
    LET st == get_stats(ec)
    IN  /\ ret.pre # None =>
              (ec.hits >= ret.pre[1].hits /\ ec.misses >= ret.pre[1].misses)
        /\ ec.hits + ec.misses = ret.gets
        /\ st.total_requests = ret.gets
        /\ st.hits = ec.hits /\ st.misses = ec.misses
        /\ IF ret.gets = 0
           THEN RatEq(st.hit_ratio, Ratio(0, 1))
           ELSE RatEq(st.hit_ratio, Ratio(ec.hits, ec.hits + ec.misses))
        /\ (ec.hits = 3 /\ ec.misses = 1) => RatEq(st.hit_ratio, Ratio(3, 4))

\* three hits and one miss, then a clear that kept the counters
C31_Witness ==
    /\ ec.hits = 3 /\ ec.misses = 1
    /\ ret.op = "clear"
    /\ get_stats(ec).hit_ratio = Ratio(3, 4)

\* no get was made yet, and the cache holds an entry
C31_WitnessNoGet ==
    /\ ret.gets = 0 /\ ret.op = "set"
    /\ get_stats(ec).hit_ratio = Ratio(0, 1)

\* C32: set on a key that is resident in a full cache evicts nothing: the
\* resident keys and the other entries are unchanged, the key's value,
\* timestamp and ttl are those written by this set, and the key becomes the
\* most recently used.
C32_ResidentSetKeepsAll ==
    (/\ ret.op = "set"
     /\ ret.key \in DOMAIN ret.pre[1].cache
     /\ Cardinality(DOMAIN ret.pre[1].cache) >= ret.pre[1].max_items) =>
        LET p == ret.pre[1]
            k == ret.key
            e == ec.cache[k]
        IN  /\ ret.evicted = {}
            /\ DOMAIN ec.cache = DOMAIN p.cache
            /\ Others(ec.cache, k) = Others(p.cache, k)
            /\ e.data = ret.data
            /\ e.timestamp = now
            /\ e.ttl \in {p.default_ttl} \cup
                         (IF ret.arg = None THEN {} ELSE {ret.arg[1]})
            /\ ec.access_order = Append(Without(p.access_order, k), k)
            /\ ec.hits = p.hits /\ ec.misses = p.misses

\* the least recently used key of a full cache of two was set again, later
\* and with another ttl, and is now the most recently used
C32_Witness ==
    /\ ret.op = "set"
    /\ ret.pre # None
    /\ Cardinality(DOMAIN ret.pre[1].cache) = 2 /\ ret.pre[1].max_items = 2
    /\ ret.pre[1].access_order[1] = ret.key
    /\ ec.access_order[2] = ret.key
    /\ ec.cache[ret.key].timestamp > ret.pre[1].cache[ret.key].timestamp
    /\ ec.cache[ret.key].ttl # ret.pre[1].cache[ret.key].ttl

(***************************************************************************)
(* A claim about retry_operation, checked under SpecRetry.                 *)
(***************************************************************************)
\* the run is one that retry_operation started without loggers
ByRetryOperationNoLoggers ==
    LET h == retry_operation(rt.max_retries, None)
    IN  /\ rt.loggers_ok = h.loggers_ok
        /\ rt.base_delay = h.base_delay
        /\ rt.retry_on = h.retry_on
        /\ rt.use_jitter = h.use_jitter

\* C33: retry_operation called without loggers retries an operation that
\* fails with a retryable error up to max_retries times, sleeping with
\* exponential backoff between the attempts, and when all retries failed
\* it raises the last exception of the operation.
C33_RetryWithoutLoggers ==
    (ByRetryOperationNoLoggers /\ rt.max_retries >= 0 /\ rt.allRetryable) =>
        /\ rt.pc # "returned"
        /\ rt.calls <= rt.max_retries + 1
        /\ rt.pc = "raised" =>
              /\ rt.calls = rt.max_retries + 1
              /\ Len(rt.sleeps) = rt.max_retries
              /\ rt.raised = rt.opRaised
        /\ \A k \in 1..Len(rt.sleeps) :
              rt.sleeps[k].base = Min(1000 * 2^(k - 1), 60000)

\* the first ConnectionError ends the call with an AttributeError, with no
\* retry and no sleep
C33_Witness ==
    /\ ByRetryOperationNoLoggers /\ rt.max_retries = 3
    /\ rt.pc = "raised" /\ rt.calls = 1 /\ rt.sleeps = <<>>
    /\ rt.opRaised = Some([kind |-> "ConnectionError", id |-> 1])
    /\ rt.raised = Some(AttributeError)

\* C35: a get that hits returns the value of the most recent set of its
\* key, and that set happened at most the entry's ttl ago; a get does not
\* change the timestamp of an entry, so an entry that has been read still
\* expires ttl after its last set.
C35_HitIsLastSet ==
    /\ \A k \in DOMAIN ec.cache :
          /\ setInfo[k] # None
          /\ ec.cache[k].timestamp = setInfo[k][1].t0
          /\ ec.cache[k].ttl = setInfo[k][1].T
          /\ ec.cache[k].data = setInfo[k][1].v
    /\ (ret.op = "get" /\ ret.hit) =>
          /\ setInfo[ret.key] # None
          /\ ret.data = setInfo[ret.key][1].v
          /\ now - setInfo[ret.key][1].t0 <= setInfo[ret.key][1].T
          /\ ec.cache[ret.key].timestamp = ret.pre[1].cache[ret.key].timestamp
    /\ (/\ ret.op = "get"
        /\ ret.key \in DOMAIN ret.pre[1].cache
        /\ now - ret.pre[1].cache[ret.key].timestamp
               > ret.pre[1].cache[ret.key].ttl) => ~ret.hit

\* a key set twice with different values was hit twice, the second time
\* exactly ttl after its last set
C35_Witness ==
    /\ ret.op = "get" /\ ret.hit
    /\ ret.data = Some("v2")
    /\ setInfo[ret.key][1].hits = 2
    /\ setInfo[ret.key][1].t0 > 0
    /\ now - setInfo[ret.key][1].t0 = setInfo[ret.key][1].T

\* an entry that was hit expired ttl after its set
C35_WitnessExpired ==
    /\ ret.op = "get" /\ ~ret.hit
    /\ ret.key \in DOMAIN ret.pre[1].cache
    /\ ret.pre[1].hits >= 1 /\ ret.pre[1].misses = 0
    /\ now - ret.pre[1].cache[ret.key].timestamp = 2 * ret.pre[1].cache[ret.key].ttl

(***************************************************************************)
(* Claims about InventoryManager.get_inventory, checked under SpecGwInv    *)
(* (force_refresh drawn freely) and SpecGwInvPlain (never force_refresh).  *)
(***************************************************************************)
InvDone(s) ==
    /\ Done(s)
    /\ sess[s].op = "get_inventory" \/ sess[s].via = "get_inventory"

\* C34: a get_inventory(force_refresh=True) obtains the inventory through
\* a remote read made by that call, or through the fallback after its
\* initialisation or read failed; it never returns data cached before.
C34_ForceRefreshReads ==
    \A s \in DOMAIN sess :
        (InvDone(s) /\ sess[s].force) =>
            /\ ~sess[s].hit
            /\ sess[s].reads = 1 \/ sess[s].failed

\* a forced call 30 s after a read was served by the gateway's cache
C34_Witness ==
    \E s \in DOMAIN sess :
        /\ InvDone(s) /\ sess[s].force
        /\ sess[s].hit /\ sess[s].reads = 0 /\ sess[s].inits = 0
        /\ sess[s].age0 = Some(30000)
        /\ sess[s].res.val = RemoteCatalog

\* C37: the data a get_inventory returns was produced by a remote read made
\* at most 300 s before the call returns.
C37_AtMostFiveMinutes ==
    \A s \in DOMAIN sess :
        (InvDone(s) /\ obs.done /\ obs.s = s /\ hist.imOrigin # None) =>
            now - hist.imOrigin[1] <= 300000

\* without any force_refresh, a call returned data read 330 s earlier
C37_Witness ==
    \E s \in DOMAIN sess :
        /\ InvDone(s) /\ obs.done /\ obs.s = s
        /\ ~sess[s].force
        /\ sess[s].res.val = RemoteCatalog
        /\ hist.imOrigin # None
        /\ now - hist.imOrigin[1] > 300000

(***************************************************************************)
(* Claims about failures and the gateway's caches, checked under           *)
(* SpecGwRead and SpecGwUpdate.                                            *)
(***************************************************************************)
\* C36: a fetch_inventory whose sheet initialisation or remote read failed
\* stores the default catalog under the inventory key with the 300 s ttl,
\* and every fetch_inventory that starts at most 300 s later returns the
\* default catalog as a cache hit, with no backend access, whatever the
\* backend would answer by then.
C36_FallbackIsCached ==
    \A s \in DOMAIN sess :
        FetchDone(s) =>
            LET m == sess[s]
                c == gw.caches.inventory
            IN  /\ (m.failed /\ obs.done /\ obs.s = s) =>
                      /\ HasKey(c, INVENTORY_KEY)
                      /\ c.cache[INVENTORY_KEY].data = Some(_create_default_inventory)
                      /\ c.cache[INVENTORY_KEY].ttl = 300000
                      /\ c.cache[INVENTORY_KEY].timestamp = now
                /\ (m.fb0 /\ m.age0 # None /\ m.age0[1] <= 300000) =>
                      /\ m.hit /\ ~m.failed
                      /\ ~m.res.raised
                      /\ m.res.val = _create_default_inventory
                      /\ m.reads = 0 /\ m.inits = 0
                      /\ (obs.done /\ obs.s = s) => obs.nremote = 0

\* 300 s after a failed read the default catalog is still served as a hit
C36_Witness ==
    \E s \in DOMAIN sess :
        /\ FetchDone(s) /\ sess[s].fb0 /\ sess[s].age0 = Some(300000)
        /\ sess[s].hit /\ sess[s].reads = 0
        /\ sess[s].res.val.src = "default"
        /\ hist.invWin[1].reads = 1

\* after the 300 s the backend, which has recovered, is read again
C36_WitnessRecovered ==
    \E s \in DOMAIN sess :
        /\ FetchDone(s) /\ sess[s].fb0
        /\ sess[s].age0 # None /\ sess[s].age0[1] > 300000
        /\ ~sess[s].hit /\ sess[s].res.val.src = "remote"

\* C38: a get_order_details(id) whose sheet initialisation or remote read
\* fails returns None and leaves no entry for id in the orders cache, and
\* the next get_order_details(id) misses the cache and goes to the backend
\* again.
C38_FailureNotCached ==
    \A s \in DOMAIN sess :
        OrderDone(s) =>
            LET m == sess[s]
            IN  /\ m.failed =>
                      /\ ~m.res.raised /\ m.res.val = None
                      /\ ~m.hit
                      /\ (obs.done /\ obs.s = s) =>
                            ~HasKey(gw.caches.orders, OrderKey(m.id))
                /\ m.fail0 =>
                      /\ ~m.hit
                      /\ m.reads + m.inits >= 1
                      /\ m.reads = IF m.sheet_ret THEN 1 ELSE 0

\* right after a failed read of the sheet, the next call reads it and
\* finds the order
C38_Witness ==
    \E s \in DOMAIN sess :
        /\ OrderDone(s) /\ sess[s].fail0 /\ nticks = 0
        /\ ~sess[s].hit /\ sess[s].reads = 1 /\ sess[s].inits = 0
        /\ sess[s].res.val # None

\* a call whose sheet initialisation failed
C38_WitnessInit ==
    \E s \in DOMAIN sess :
        /\ OrderDone(s) /\ sess[s].failed /\ ~sess[s].sheet_ret
        /\ sess[s].res.val = None
        /\ ~HasKey(gw.caches.orders, OrderKey(sess[s].id))

\* C39: when an update_order_status(id) that has changed a cell of the
\* order's row returns, with success or with failure, the orders cache
\* holds no entry for id.
C39_ChangedRowIsUncached ==
    \A s \in DOMAIN sess :
        (/\ UpdateDone(s) /\ obs.done /\ obs.s = s
         /\ sess[s].row0 # None
         /\ remote.orders[sess[s].id].ver > sess[s].row0[1].ver) =>
            ~HasKey(gw.caches.orders, OrderKey(sess[s].id))

\* the call failed after it had written the Status cell, and the cache
\* still holds the record read before
C39_Witness ==
    \E s \in DOMAIN sess :
        /\ UpdateDone(s) /\ obs.done /\ obs.s = s
        /\ sess[s].res.val = FALSE
        /\ sess[s].row0 # None
        /\ remote.orders[sess[s].id].Status = "shipped"
        /\ HasKey(gw.caches.orders, OrderKey(sess[s].id))
        /\ gw.caches.orders.cache[OrderKey(sess[s].id)].data[1].Status = "pending"

====
